---- MODULE Spec2Model ----
(***************************************************************************)
(* Orchestration engine of the STARGENT multi-agent assistant              *)
(* (src/app/agent/agent.py, src/app/agent/model_class.py).                 *)
(*                                                                         *)
(* Agent identities are written with the romanised names the source uses   *)
(* for its executor functions: bibi, kiki, ager, ramu, coli                *)
(* (execute_bibi ... execute_coli, agent.py:486-513).                      *)
(*                                                                         *)
(* Texts are sequences of tokens.  The empty Python string is <<>>, and    *)
(* Python's None is the reserved one-token text NoneVal.                   *)
(***************************************************************************)
EXTENDS Integers, Sequences, FiniteSets, TLC

VARIABLES
    gw,               \* Gateway: position and counters of one safe_llm_call_with_retry call
    gw_script,        \* Gateway: what the n-th underlying transport call does
    gw_max_retries,   \* Gateway: the max_retries argument of the call
    user_ctx,         \* the session's UserContexts
    agent_ctx,        \* the AgentContexts of the plan being executed
    ag_name,          \* Agent Runner: the agent_name argument of the turn
    ag_env,           \* Agent Runner: what the collaborators do during the turn
    ag_ret,           \* Agent Runner: position, returned AgentOutput and call log
    pl_env,           \* Planner: what the model answers to the planning call
    pl_ret,           \* Planner: position, returned AgentPlan and call log
    phase,            \* Plan Executor: Planning, Planned, Running, Completed or Raised
    plan,             \* Plan Executor: the AgentPlan being executed
    plan_ctx,         \* Plan Executor: the local agent_ctx of execute_plan
    step_idx,         \* Plan Executor: number of loop iterations completed
    runs,             \* Plan Executor: the runner invocations made, in order
    rs_in,            \* Resolver: the response, registry and tool behaviour of one call
    rs_ret,           \* Resolver: position and returned (text, follow-up messages)
    heap,             \* Sessions: the list objects, by address
    sess,             \* Sessions: each session's UserContexts and AgentContexts objects
    clock,            \* Sessions: the reading of datetime.now()
    probe,            \* Sessions: the last operation and what it returned
    prompts,          \* Sessions: the last two Context Assembler calls
    ui,               \* Web UI: position and local agent_ctx of process_user_message
    ui_input          \* Web UI: the user_input argument of process_user_message

gwVars == <<gw, gw_script, gw_max_retries>>
ctxVars == <<user_ctx, agent_ctx>>
agVars == <<ag_name, ag_env, ag_ret>>
plVars == <<pl_env, pl_ret>>
exVars == <<phase, plan, plan_ctx, step_idx, runs>>
rsVars == <<rs_in, rs_ret>>
ssVars == <<heap, sess, clock, probe, prompts>>
uiVars == <<ui, ui_input>>
auxVars == <<rsVars, ssVars, uiVars>>

vars == <<gwVars, ctxVars, agVars, plVars, exVars, auxVars>>

-----------------------------------------------------------------------------
(* Bounds of the model *)

MaxRetries == 3

\* longest plan the model's JSON can carry
MaxPlanLen == 2

\* most tool calls in one model response of a single agent turn
MaxTurnCalls == 1

\* most tokens in the text of a planner response
MaxTokens == 3

\* the most tool calls one response requests in a Resolver call
MaxCalls == 2

\* the most state-changing operations one session performs
MaxSessionOps == 2

-----------------------------------------------------------------------------
(* Python values shared by all components *)

NoneVal == <<"<None>">>

\* Python truthiness of an Optional[str]
Truthy(text) == text # <<>> /\ text # NoneVal

\* Python a or b on Optional[str]
\* an or that always takes its second operand
PyOr_Second(a, b) == b

PyOr(a, b) == IF Truthy(a) THEN a ELSE b

-----------------------------------------------------------------------------
(* 4.1 Language Model Gateway: safe_llm_call_with_retry, agent.py:70-124 *)

\* default of the max_retries parameter
DefaultMaxRetries == 2

\* exception classes the transport can raise; the three openai classes are
\* the ones named in the except clauses, "Exception" is any other exception
FailureKinds == {"APIError", "RateLimitError", "APIConnectionError", "Exception"}

Outcomes == {"ok"} \cup FailureKinds

\* openai.RateLimitError and openai.APIConnectionError derive from openai.APIError
IsSubclass(kind, base) ==
    \/ kind = base
    \/ base = "Exception"
    \/ base = "APIError" /\ kind \in {"RateLimitError", "APIConnectionError"}

\* the except clauses in source order
ExceptClauses == <<"APIError", "RateLimitError", "APIConnectionError", "Exception">>

RECURSIVE FirstClause(_, _)
FirstClause(kind, i) ==
    IF i > Len(ExceptClauses) THEN "unhandled"
    ELSE IF IsSubclass(kind, ExceptClauses[i]) THEN ExceptClauses[i]
    ELSE FirstClause(kind, i + 1)

\* the except clauses without the final except Exception
Handler_NoCatchAll(kind) ==
    IF IsSubclass(kind, "APIError") /\ kind # "Exception" THEN "APIError" ELSE "unhandled"

\* except clauses that let a rate-limit rejection through
Handler_RateLimitEscapes(kind) ==
    IF kind = "RateLimitError" THEN "unhandled" ELSE FirstClause(kind, 1)

\* the clause that handles an exception of the given kind
Handler(kind) == FirstClause(kind, 1)

\* error_msg assigned by the clause
ErrorMsg(kind) ==
    CASE Handler(kind) = "APIError"           -> <<"OpenAI API error", kind>>
      [] Handler(kind) = "RateLimitError"     -> <<"rate limit exceeded">>
      [] Handler(kind) = "APIConnectionError" -> <<"API connection error">>
      [] OTHER                                -> <<"unexpected error", kind>>

\* range(max_retries + 1)
RangeEnd(max_retries) == max_retries + 1

\* the test taken one attempt too early
IsLastAttempt_Early(attempt, max_retries) == attempt + 1 >= max_retries

\* if attempt == max_retries
IsLastAttempt(attempt, max_retries) == attempt = max_retries

NoResult == [kind |-> "pending", call |-> 0]
Unavailable == [kind |-> "None", call |-> 0]
Raised == [kind |-> "raised", call |-> 0]
ResponseOf(n) == [kind |-> "response", call |-> n]

\* entry of the for loop
GwEnter(max_retries) ==
    IF 0 < RangeEnd(max_retries)
    THEN [pc |-> "loop", attempt |-> 0, calls |-> 0, sleeps |-> 0,
          result |-> NoResult, error_msg |-> <<>>]
    ELSE [pc |-> "returned", attempt |-> 0, calls |-> 0, sleeps |-> 0,
          result |-> Unavailable, error_msg |-> <<>>]

\* an iteration that sleeps after every failed attempt, the last one included
GwIterate_SleepBeforeTest(g, outcome, max_retries) ==
    IF outcome = "ok"
    THEN [g EXCEPT !.pc = "returned", !.calls = @ + 1,
                   !.result = ResponseOf(g.calls + 1)]
    ELSE IF g.attempt = max_retries
    THEN [g EXCEPT !.pc = "returned", !.calls = @ + 1, !.sleeps = @ + 1,
                   !.result = Unavailable]
    ELSE [g EXCEPT !.calls = @ + 1, !.sleeps = @ + 1, !.attempt = @ + 1]

\* one iteration of the for loop: the transport call, the except clauses,
\* the last-attempt test, the sleep and the loop increment
GwIterate(g, outcome, max_retries) ==
    IF outcome = "ok"
    THEN [g EXCEPT !.pc = "returned", !.calls = @ + 1,
                   !.result = ResponseOf(g.calls + 1)]
    ELSE IF Handler(outcome) = "unhandled"
    THEN [g EXCEPT !.pc = "returned", !.calls = @ + 1, !.result = Raised]
    ELSE IF IsLastAttempt(g.attempt, max_retries)
    THEN [g EXCEPT !.pc = "returned", !.calls = @ + 1,
                   !.result = Unavailable, !.error_msg = ErrorMsg(outcome)]
    ELSE IF g.attempt + 1 < RangeEnd(max_retries)
    THEN [g EXCEPT !.calls = @ + 1, !.sleeps = @ + 1, !.attempt = @ + 1,
                   !.error_msg = ErrorMsg(outcome)]
    ELSE [g EXCEPT !.pc = "returned", !.calls = @ + 1, !.sleeps = @ + 1,
                   !.attempt = @ + 1, !.result = Unavailable,
                   !.error_msg = ErrorMsg(outcome)]

RECURSIVE GwRun(_, _, _)
GwRun(g, script, max_retries) ==
    IF g.pc = "returned" THEN g
    ELSE GwRun(GwIterate(g, script[g.calls + 1], max_retries), script, max_retries)

\* the whole call, for a transport that behaves as the script says
safe_llm_call_with_retry(script, max_retries) ==
    GwRun(GwEnter(max_retries), script, max_retries)

\* transport scripts long enough for every attempt of one call
Scripts(max_retries) == [1..RangeEnd(max_retries) -> Outcomes]

-----------------------------------------------------------------------------
(* 3. Data model: src/app/agent/model_class.py *)

\* an int field holds IntVal(n); a JSON value of another type (a string, null)
\* put where an int is expected is NonInt
IntVal(n) == [isint |-> TRUE, n |-> n]
NonInt == [isint |-> FALSE, n |-> 0]

\* Python a >= b: a TypeError when b is not a number
PyGE(a, b) == [fault |-> ~b.isint, value |-> b.isint /\ a >= b.n]

\* an agent_name that is a JSON number instead of a string
NumberName == "#5"
IsStr(name) == name # NumberName

\* @dataclass UserContexts; user_info is the mapping in iteration order
UserContexts(user_info, chat_history) ==
    [user_info |-> user_info, chat_history |-> chat_history]

ChatMessage(role, content, timestamp, progress) ==
    [role |-> role, content |-> content, timestamp |-> timestamp, progress |-> progress]

\* UserContexts.add_user_message; now is the clock reading of datetime.now()
add_user_message(u, content, now) ==
    [u EXCEPT !.chat_history = Append(@, ChatMessage("user", content, now, NoneVal))]

\* UserContexts.add_assistant_message
add_assistant_message(u, content, progress, now) ==
    [u EXCEPT !.chat_history = Append(@, ChatMessage("assistant", content, now, progress))]

\* @dataclass AgentOutput
AgentOutput(final_output, progress_description, output) ==
    [final_output |-> final_output,
     progress_description |-> progress_description,
     output |-> output]

\* @dataclass AgentPlan; the constructor stores its arguments as given
AgentPlan(total_steps, plans, mode) ==
    [total_steps |-> total_steps, plans |-> plans, mode |-> mode]

\* @dataclass AgentContexts
AgentContexts(agent_id_history, total_step, current_step, agent_output) ==
    [agent_id_history |-> agent_id_history, total_step |-> total_step,
     current_step |-> current_step, agent_output |-> agent_output]

\* add_agent_result with the step counter left behind
add_agent_result_NoCount(ctx, agent_name, output) ==
    [ctx EXCEPT !.agent_id_history = Append(@, agent_name),
                !.agent_output = Append(@, output)]

\* add_agent_result that also resets total_step to the results recorded
add_agent_result_Retotal(ctx, agent_name, output) ==
    [ctx EXCEPT !.agent_id_history = Append(@, agent_name),
                !.agent_output = Append(@, output),
                !.current_step = Len(ctx.agent_id_history) + 1,
                !.total_step = IntVal(Len(ctx.agent_id_history) + 1)]

\* AgentContexts.add_agent_result
add_agent_result(ctx, agent_name, output) ==
    [ctx EXCEPT !.agent_id_history = Append(@, agent_name),
                !.agent_output = Append(@, output),
                !.current_step = Len(ctx.agent_id_history) + 1]

\* a finality test that asks for more results than the plan has steps
is_final_step_Strict(ctx) ==
    [fault |-> ~ctx.total_step.isint,
     value |-> ctx.total_step.isint /\ ctx.current_step > ctx.total_step.n]

\* AgentContexts.is_final_step
is_final_step(ctx) == PyGE(ctx.current_step, ctx.total_step)

\* --- serialization ---
\* A JSON text is its document tree: a node is [j |-> kind, v |-> value] with
\* kind null, str, num, bool, list or dict; the value of a dict node is the
\* sequence of its <<key, node>> members in order.  A Python dict that is not
\* a chat message is the sequence of its <<key, value>> items (as user_info).

\* UserContexts.to_json: json.dumps(asdict(self))
UserContexts_to_json(u) ==
    LET str(t) == IF t = NoneVal THEN [j |-> "null", v |-> <<>>] ELSE [j |-> "str", v |-> t]
        tok(x) == [j |-> "str", v |-> x]
        info == [i \in 1..Len(u.user_info) |-> <<u.user_info[i][1], tok(u.user_info[i][2])>>]
        msg(m) == [j |-> "dict",
                   v |-> << <<"role", tok(m.role)>>, <<"content", str(m.content)>>,
                            <<"timestamp", tok(m.timestamp)>>,
                            <<"progress", str(m.progress)>> >>]
    IN [j |-> "dict",
        v |-> << <<"user_info", [j |-> "dict", v |-> info]>>,
                 <<"chat_history",
                   [j |-> "list",
                    v |-> [i \in 1..Len(u.chat_history) |-> msg(u.chat_history[i])]]>> >>]

\* UserContexts.from_json: cls(**json.loads(json_str))
UserContexts_from_json(doc) ==
    LET val(n) == IF n.j = "null" THEN NoneVal ELSE n.v
        get(d, key) == d.v[CHOOSE i \in 1..Len(d.v) : d.v[i][1] = key][2]
        info(d) == [i \in 1..Len(d.v) |-> <<d.v[i][1], val(d.v[i][2])>>]
        msg(d) == ChatMessage(val(get(d, "role")), val(get(d, "content")),
                              val(get(d, "timestamp")), val(get(d, "progress")))
        chats(l) == [i \in 1..Len(l.v) |-> msg(l.v[i])]
    IN UserContexts(info(get(doc, "user_info")), chats(get(doc, "chat_history")))

\* a from_json that hands the decoded dicts of agent_output to the constructor
AgentContexts_from_json_Dicts(doc) ==
    LET val(n) == IF n.j = "null" THEN NoneVal ELSE n.v
        get(d, key) == d.v[CHOOSE i \in 1..Len(d.v) : d.v[i][1] = key][2]
        list(l) == [i \in 1..Len(l.v) |-> val(l.v[i])]
        items(d) == [type |-> "dict",
                     final_output |-> val(get(d, "final_output")),
                     progress_description |-> val(get(d, "progress_description")),
                     output |-> val(get(d, "output"))]
        outs(l) == [i \in 1..Len(l.v) |-> items(l.v[i])]
    IN AgentContexts(list(get(doc, "agent_id_history")), val(get(doc, "total_step")),
                     val(get(doc, "current_step")), outs(get(doc, "agent_output")))

\* AgentContexts.to_json: asdict(self), agent_output as a list of asdict(output)
AgentContexts_to_json(a) ==
    LET str(t) == IF t = NoneVal THEN [j |-> "null", v |-> <<>>] ELSE [j |-> "str", v |-> t]
        name(n) == IF IsStr(n) THEN [j |-> "str", v |-> n] ELSE [j |-> "num", v |-> n]
        int(n) == IF n.isint THEN [j |-> "num", v |-> n] ELSE [j |-> "str", v |-> n]
        out(o) == [j |-> "dict",
                   v |-> << <<"final_output", [j |-> "bool", v |-> o.final_output]>>,
                            <<"progress_description", str(o.progress_description)>>,
                            <<"output", str(o.output)>> >>]
    IN [j |-> "dict",
        v |-> << <<"agent_id_history",
                   [j |-> "list",
                    v |-> [i \in 1..Len(a.agent_id_history) |-> name(a.agent_id_history[i])]]>>,
                 <<"total_step", int(a.total_step)>>,
                 <<"current_step", [j |-> "num", v |-> a.current_step]>>,
                 <<"agent_output",
                   [j |-> "list",
                    v |-> [i \in 1..Len(a.agent_output) |-> out(a.agent_output[i])]]>> >>]

\* AgentContexts.from_json: each decoded dict of agent_output becomes
\* AgentOutput(**output_dict), then cls(**data)
AgentContexts_from_json(doc) ==
    LET val(n) == IF n.j = "null" THEN NoneVal ELSE n.v
        get(d, key) == d.v[CHOOSE i \in 1..Len(d.v) : d.v[i][1] = key][2]
        list(l) == [i \in 1..Len(l.v) |-> val(l.v[i])]
        out(d) == AgentOutput(val(get(d, "final_output")),
                              val(get(d, "progress_description")), val(get(d, "output")))
        outs(l) == [i \in 1..Len(l.v) |-> out(l.v[i])]
    IN AgentContexts(list(get(doc, "agent_id_history")), val(get(doc, "total_step")),
                     val(get(doc, "current_step")), outs(get(doc, "agent_output")))

-----------------------------------------------------------------------------
(* Template Store: load_prompt, agent.py:34-68 *)

TemplateStates == {"file", "missing"}

\* the prompt file's content, or the generic default when the file is
\* missing or reading it fails
load_prompt(agent_name, template) ==
    IF template = "file"
    THEN <<"prompt_file", agent_name>>
    ELSE <<"you are the", agent_name, "agent; give a helpful answer">>

-----------------------------------------------------------------------------
(* Tool Registry: src/app/agent/tools.py *)

\* keys of TOOL_FUNCTIONS
TOOL_FUNCTIONS ==
    {"get_latest_news", "get_major_movers", "get_market_indicators",
     "search_stock_code", "get_stock_price", "analyze_stock_pattern",
     "get_company_info", "generate_scenarios"}

\* AGENT_TOOLS.get(agent_name, []): the names of the declared functions
AGENT_TOOLS(agent_name) ==
    CASE agent_name = "kiki" -> <<"get_latest_news", "get_major_movers", "get_market_indicators">>
      [] agent_name = "ager" -> <<"search_stock_code", "get_stock_price",
                                  "analyze_stock_pattern", "get_company_info">>
      [] agent_name = "ramu" -> <<"generate_scenarios">>
      [] OTHER -> <<>>

-----------------------------------------------------------------------------
(* Model transport values *)

\* a requested tool call: tool_call.id, .type, .function.name, .function.arguments
ToolCall(id, name, arguments) ==
    [id |-> id, type |-> "function", name |-> name, arguments |-> arguments]

\* response.choices[0].message
ModelMessage(content, tool_calls) == [content |-> content, tool_calls |-> tool_calls]

\* a transport response; a response without choices has choices = <<>>
Response(choices) == [choices |-> choices]

\* a conversation message; a key the dict does not have is <<>> (tool_calls)
\* or 0 (tool_call_id); the ids of requested calls are 1, 2, ...
Message(role, content, tool_calls, tool_call_id) ==
    [role |-> role, content |-> content, tool_calls |-> tool_calls,
     tool_call_id |-> tool_call_id]

-----------------------------------------------------------------------------
(* 4.2 Tool Invocation Resolver: execute_tools_if_needed, agent.py:126-196 *)

\* argument payloads: undecodable text, a JSON object, a JSON array
ArgPayloads == {"{bad", "{}", "[]"}

\* a decoder that turns every payload into an empty dict
ArgsDecode_Lenient(arguments) == "dict"

\* json.loads(tool_call.function.arguments)
ArgsDecode(arguments) ==
    CASE arguments = "{}" -> "dict"
      [] arguments = "[]" -> "list"
      [] OTHER -> "JSONDecodeError"

\* what a tool function does when it is called: it returns, it raises an
\* exception that is not a json.JSONDecodeError, or it raises one
ToolOutcomes == {"returns", "raises", "raises JSONDecodeError"}

\* the body of the loop over message.tool_calls, lines 168-186:
\* the follow-up content and whether the tool function was called; the
\* except clauses of lines 183-186 choose the error text by the type of the
\* exception, whether json.loads or the tool function raised it
ResolveCall(tool_call, available_tools, outcome) ==
    LET name == tool_call.name IN
    IF ArgsDecode(tool_call.arguments) = "JSONDecodeError"
    THEN [content |-> <<"error:", name, "argument parsing failed">>, executed |-> FALSE]
    ELSE IF name \in available_tools
    THEN IF ArgsDecode(tool_call.arguments) # "dict"
         THEN [content |-> <<"error:", name, "failed during execution">>, executed |-> FALSE]
         ELSE IF outcome = "raises JSONDecodeError"
         THEN [content |-> <<"error:", name, "argument parsing failed">>, executed |-> TRUE]
         ELSE IF outcome = "raises"
         THEN [content |-> <<"error:", name, "failed during execution">>, executed |-> TRUE]
         ELSE [content |-> <<"result of", name>>, executed |-> TRUE]
    ELSE [content |-> <<"error: unknown tool", name>>, executed |-> FALSE]

\* the "tool_calls" list of the assistant message, lines 154-163
RECURSIVE AssistantCalls(_, _)
AssistantCalls(tool_calls, i) ==
    IF i > Len(tool_calls) THEN <<>>
    ELSE <<[id |-> tool_calls[i].id, type |-> tool_calls[i].type,
            function |-> [name |-> tool_calls[i].name,
                          arguments |-> tool_calls[i].arguments]]>>
         \o AssistantCalls(tool_calls, i + 1)

\* a loop that appends a tool message only for a call whose tool ran
RECURSIVE ToolMessages_ExecutedOnly(_, _, _, _)
ToolMessages_ExecutedOnly(tool_calls, available_tools, outcomes, i) ==
    IF i > Len(tool_calls) THEN <<>>
    ELSE (IF ResolveCall(tool_calls[i], available_tools, outcomes[i]).executed
          THEN <<Message("tool",
                         ResolveCall(tool_calls[i], available_tools, outcomes[i]).content,
                         <<>>, tool_calls[i].id)>>
          ELSE <<>>)
         \o ToolMessages_ExecutedOnly(tool_calls, available_tools, outcomes, i + 1)

\* a loop that a failing call ends: the calls after it get no message
RECURSIVE ToolMessages_StopAtFault(_, _, _, _)
ToolMessages_StopAtFault(tool_calls, available_tools, outcomes, i) ==
    IF i > Len(tool_calls) THEN <<>>
    ELSE <<Message("tool",
                   ResolveCall(tool_calls[i], available_tools, outcomes[i]).content,
                   <<>>, tool_calls[i].id)>>
         \o (IF ResolveCall(tool_calls[i], available_tools, outcomes[i]).content[1]
                  = "result of"
             THEN ToolMessages_StopAtFault(tool_calls, available_tools, outcomes, i + 1)
             ELSE <<>>)

\* the tool messages appended by the loop, lines 167-191
RECURSIVE ToolMessages(_, _, _, _)
ToolMessages(tool_calls, available_tools, outcomes, i) ==
    IF i > Len(tool_calls) THEN <<>>
    ELSE <<Message("tool",
                   ResolveCall(tool_calls[i], available_tools, outcomes[i]).content,
                   <<>>, tool_calls[i].id)>>
         \o ToolMessages(tool_calls, available_tools, outcomes, i + 1)

\* names of the tool functions called by the loop, in call order
RECURSIVE ToolsExecuted(_, _, _, _)
ToolsExecuted(tool_calls, available_tools, outcomes, i) ==
    IF i > Len(tool_calls) THEN <<>>
    ELSE (IF ResolveCall(tool_calls[i], available_tools, outcomes[i]).executed
          THEN <<tool_calls[i].name>> ELSE <<>>)
         \o ToolsExecuted(tool_calls, available_tools, outcomes, i + 1)

\* execute_tools_if_needed; fault is the IndexError of response.choices[0]
execute_tools_if_needed(response, available_tools, outcomes) ==
    IF response.choices = <<>>
    THEN [fault |-> TRUE, content |-> <<>>, additional_messages |-> <<>>, executed |-> <<>>]
    ELSE
    LET message == response.choices[1] IN
    IF message.tool_calls # <<>>
    THEN [fault |-> FALSE,
          content |-> PyOr(message.content, <<>>),
          additional_messages |->
              <<Message("assistant", message.content,
                        AssistantCalls(message.tool_calls, 1), 0)>>
              \o ToolMessages(message.tool_calls, available_tools, outcomes, 1),
          executed |-> ToolsExecuted(message.tool_calls, available_tools, outcomes, 1)]
    ELSE [fault |-> FALSE,
          content |-> PyOr(message.content, <<>>),
          additional_messages |-> <<>>,
          executed |-> <<>>]

-----------------------------------------------------------------------------
(* 4.3 Context Assembler: create_context_prompt, agent.py:198-245 *)

\* chat turns shown, and the character budgets of a chat turn and of an output
RecentChats == 5
ChatBudget == 100
OutputBudget == 200

\* initialize_session_state, streamlit_app.py:162-175: the greeting is a text
\* of 224 characters, longer than the budget of a chat turn
WelcomeLen == 224
welcome_message == [i \in 1..WelcomeLen |-> IF i = 1 THEN "welcome" ELSE "_"]

Min(a, b) == IF a <= b THEN a ELSE b
Max(a, b) == IF a >= b THEN a ELSE b

\* text[:n] followed by '...' when len(text) > n
Truncate(text, n) ==
    IF Len(text) > n THEN SubSeq(text, 1, n) \o <<"...">> ELSE text

\* decimal digits of a natural number
RECURSIVE NumToks(_)
NumToks(n) ==
    IF n < 10
    THEN <<(<<"0", "1", "2", "3", "4", "5", "6", "7", "8", "9">>)[n + 1]>>
    ELSE NumToks(n \div 10) \o NumToks(n % 10)

\* a progress line that shows the reading of the clock
FieldToks_Clocked(v) == <<IF clock % 2 = 0 THEN "even" ELSE "odd">>

\* str() of an int field
FieldToks(v) == IF v.isint THEN NumToks(v.n) ELSE <<"nonint">>

\* lines 216-219
RECURSIVE UserInfoLines(_, _)
UserInfoLines(user_info, i) ==
    IF i > Len(user_info) THEN <<>>
    ELSE <<"-", user_info[i][1], ":", user_info[i][2], "\n">>
         \o UserInfoLines(user_info, i + 1)

\* lines 225-227
RECURSIVE ChatLines(_, _)
ChatLines(chats, i) ==
    IF i > Len(chats) THEN <<>>
    ELSE <<"-", IF chats[i].role = "user" THEN "user" ELSE "AI", ":">>
         \o Truncate(chats[i].content, ChatBudget) \o <<"\n">>
         \o ChatLines(chats, i + 1)

\* a window that never closes: the whole history
RecentOf_Whole(chat_history) == chat_history

\* chat_history[-5:]
RecentOf(chat_history) ==
    SubSeq(chat_history, Max(1, Len(chat_history) - RecentChats + 1), Len(chat_history))

\* lines 232-235
RECURSIVE OutputLines(_, _)
OutputLines(ctx, i) ==
    IF i > Len(ctx.agent_output) THEN <<>>
    ELSE <<"-", IF i <= Len(ctx.agent_id_history)
                THEN ctx.agent_id_history[i] ELSE "Agent", ":">>
         \o ctx.agent_output[i].progress_description \o <<"\n", "result:">>
         \o Truncate(ctx.agent_output[i].output, OutputBudget) \o <<"\n">>
         \o OutputLines(ctx, i + 1)

\* ', '.join(agent_id_history)
RECURSIVE JoinNames(_, _)
JoinNames(names, i) ==
    IF i > Len(names) THEN <<>>
    ELSE (IF i > 1 THEN <<",">> ELSE <<>>) \o <<names[i]>> \o JoinNames(names, i + 1)

\* create_context_prompt; fault is the TypeError of str.join on a name that
\* is not a string
create_context_prompt(u, ctx, base_prompt) ==
    [fault |-> \E i \in 1..Len(ctx.agent_id_history) : ~IsStr(ctx.agent_id_history[i]),
     text |->
        base_prompt \o <<"=== context ===">>
        \o (IF u.user_info # <<>>
            THEN <<"[user info]">> \o UserInfoLines(u.user_info, 1) ELSE <<>>)
        \o (IF u.chat_history # <<>>
            THEN <<"[recent chats]">> \o ChatLines(RecentOf(u.chat_history), 1) ELSE <<>>)
        \o (IF ctx.agent_output # <<>>
            THEN <<"[previous agent results]">> \o OutputLines(ctx, 1) ELSE <<>>)
        \o <<"[progress]", "step">> \o NumToks(ctx.current_step + 1) \o <<"/">>
        \o FieldToks(ctx.total_step) \o <<"\n", "done:">>
        \o (IF ctx.agent_id_history # <<>>
            THEN JoinNames(ctx.agent_id_history, 1) ELSE <<"none">>)
        \o <<"\n", "answer the user's request using the information above">>]

-----------------------------------------------------------------------------
(* 4.4 Agent Runner: execute_agent, agent.py:392-483 *)

\* lines 423-428 (and 276-281): the content of the latest user turn, "" if none
RECURSIVE LastUserMessageFrom(_, _)
LastUserMessageFrom(chat_history, i) ==
    IF i < 1 THEN <<>>
    ELSE IF chat_history[i].role = "user" THEN chat_history[i].content
    ELSE LastUserMessageFrom(chat_history, i - 1)

\* the content of the most recent turn, whoever wrote it
LastUserMessage_LastTurn(chat_history) ==
    IF chat_history = <<>> THEN <<>> ELSE chat_history[Len(chat_history)].content

LastUserMessage(chat_history) == LastUserMessageFrom(chat_history, Len(chat_history))

\* a transport that fails fails times and then succeeds
FailScript(fails) ==
    [n \in 1..RangeEnd(DefaultMaxRetries) |-> IF n <= fails THEN "APIConnectionError" ELSE "ok"]

\* one Gateway call with the default max_retries, as the runner sees it
\* a Gateway call that offers kiki's tools when it is given none
GatewayCall_OffersTools(messages, tools, fails) ==
    LET g == safe_llm_call_with_retry(FailScript(fails), DefaultMaxRetries) IN
    [messages |-> messages,
     tools |-> IF tools = <<>> THEN AGENT_TOOLS("kiki") ELSE tools,
     attempts |-> g.calls, sleeps |-> g.sleeps, ok |-> g.result.kind = "response"]

GatewayCall(messages, tools, fails) ==
    LET g == safe_llm_call_with_retry(FailScript(fails), DefaultMaxRetries) IN
    [messages |-> messages, tools |-> tools, attempts |-> g.calls,
     sleeps |-> g.sleeps, ok |-> g.result.kind = "response"]

\* the fixed texts of the runner
ApologyUnavailable == <<"sorry, the service has a temporary problem; try again later">>
ApologyFault(agent_name) == <<"sorry,", agent_name, "failed with an error; try again">>
ToolsDoneNoAnswer == <<"the tools ran but the final answer could not be produced">>
NoAnswer == <<"no answer could be produced">>

\* statements of the function body at which a fault can be raised
Stages == {"load", "assemble", "extract", "call1", "resolve", "call2", "package"}

\* a try block that guards only the two Gateway calls
AgentExcept_GatewayOnly(stage) == stage \in {"call1", "call2"}

\* except Exception of the try block around the whole body, lines 413/477
AgentExcept(stage) == TRUE

NoOutput == AgentOutput(FALSE, <<>>, <<>>)

Returned(output, log) == [pc |-> "returned", result |-> output, log |-> log]

\* a fault raised at a stage: the except block's AgentOutput, lines 477-483
OnFault(agent_name, stage, log) ==
    IF AgentExcept(stage)
    THEN Returned(AgentOutput(TRUE, <<agent_name, "failed with an error">>,
                              ApologyFault(agent_name)), log)
    ELSE [pc |-> "raised", result |-> NoOutput, log |-> log]

\* final_content or <fallback> with an empty fallback
FinalOutputText_NoFallback(final_content) == PyOr(final_content, <<>>)

\* line 471: output=final_content or "..."
FinalOutputText(final_content) == PyOr(final_content, NoAnswer)

\* the test of is_final_step applied before the append
IsFinal_AfterAppend(ctx) == PyGE(ctx.current_step, ctx.total_step)

\* line 465
IsFinal(ctx) == PyGE(ctx.current_step + 1, ctx.total_step)

\* lines 464-475
Package(agent_name, ctx, env, final_content, log) ==
    IF env.fault = "package" \/ IsFinal(ctx).fault
    THEN OnFault(agent_name, "package", log)
    ELSE Returned(AgentOutput(IsFinal(ctx).value, <<agent_name, "finished its work">>,
                              FinalOutputText(final_content)), log)

\* a second conversation made of the follow-up messages alone
FinalMessages_FollowUpsOnly(messages, additional_messages) == additional_messages

\* line 454: final_messages = messages + additional_messages
FinalMessages(messages, additional_messages) == messages \o additional_messages

\* a test of the first response that never sees it missing
FirstResponseIsNone_Never(call) == FALSE

\* line 442: if response is None
FirstResponseIsNone(call) == ~call.ok

\* execute_agent.  env says what the collaborators do: the template store,
\* the fault (if any) raised by a statement, the leading transport failures
\* and the response of each Gateway call, and what each called tool does
execute_agent(agent_name, u, ctx, env) ==
    LET base_prompt == load_prompt(agent_name, env.template)
        prompt == create_context_prompt(u, ctx, base_prompt)
        last_user_message == LastUserMessage(u.chat_history)
        messages == <<Message("system", prompt.text, <<>>, 0),
                      Message("user", last_user_message, <<>>, 0)>>
        available_tools == AGENT_TOOLS(agent_name)
        call1 == GatewayCall(messages, available_tools, env.fail1)
        resolved == execute_tools_if_needed(env.response1, TOOL_FUNCTIONS, env.outcomes)
        final_messages == FinalMessages(messages, resolved.additional_messages)
        call2 == GatewayCall(final_messages, <<>>, env.fail2)
        log0 == [calls |-> <<>>, executed |-> <<>>]
        log1 == [calls |-> <<call1>>, executed |-> <<>>]
        log2 == [calls |-> <<call1>>, executed |-> resolved.executed]
        log3 == [calls |-> <<call1, call2>>, executed |-> resolved.executed]
    IN
    IF env.fault = "load" THEN OnFault(agent_name, "load", log0)
    ELSE IF env.fault = "assemble" \/ prompt.fault THEN OnFault(agent_name, "assemble", log0)
    ELSE IF env.fault = "extract" THEN OnFault(agent_name, "extract", log0)
    ELSE IF env.fault = "call1" THEN OnFault(agent_name, "call1", log0)
    ELSE IF FirstResponseIsNone(call1)
    THEN Returned(AgentOutput(TRUE, <<agent_name, "failed">>, ApologyUnavailable), log1)
    ELSE IF env.fault = "resolve" \/ resolved.fault THEN OnFault(agent_name, "resolve", log1)
    ELSE IF resolved.additional_messages # <<>>
    THEN IF env.fault = "call2" THEN OnFault(agent_name, "call2", log2)
         ELSE IF ~call2.ok
         THEN Package(agent_name, ctx, env, PyOr(resolved.content, ToolsDoneNoAnswer), log3)
         ELSE IF env.response2.choices = <<>> THEN OnFault(agent_name, "call2", log3)
         ELSE Package(agent_name, ctx, env, env.response2.choices[1].content, log3)
    ELSE Package(agent_name, ctx, env, resolved.content, log2)

\* --- what the collaborators of one turn can do ---

Env(template, fault, fail1, response1, outcomes, fail2, response2) ==
    [template |-> template, fault |-> fault, fail1 |-> fail1, response1 |-> response1,
     outcomes |-> outcomes, fail2 |-> fail2, response2 |-> response2]

\* message.content of the first and of the second response
Contents1 == {NoneVal, <<>>, <<"a", "1">>}
Contents2 == {NoneVal, <<>>, <<"a", "2">>}

\* one requested call and what its tool does; a tool outcome is listed only
\* for a call that reaches the tool function
CallCases ==
    {c \in {"get_latest_news", "no_such_tool"} \X ArgPayloads \X ToolOutcomes :
        /\ c[3] # "returns" => (c[1] \in TOOL_FUNCTIONS /\ c[2] = "{}")
        /\ c[2] = "[]" => c[1] \in TOOL_FUNCTIONS}

CallLists(maxlen) == UNION {[1..n -> CallCases] : n \in 1..maxlen}

\* the call lists in which a tool raises json.JSONDecodeError, and the others
DecodeRaisingLists(maxlen) ==
    {cs \in CallLists(maxlen) : \E i \in 1..Len(cs) : cs[i][3] = "raises JSONDecodeError"}
PlainCallLists(maxlen) == CallLists(maxlen) \ DecodeRaisingLists(maxlen)

CallsOf(cases) == [i \in 1..Len(cases) |-> ToolCall(i, cases[i][1], cases[i][2])]
OutcomesOf(cases) == [i \in 1..Len(cases) |-> cases[i][3]]

NoChoices == Response(<<>>)
Answer(content, tool_calls) == Response(<<ModelMessage(content, tool_calls)>>)

\* a second response that asks for a tool again
MoreCalls == Answer(<<"a", "2">>, <<ToolCall(1, "get_major_movers", "{}")>>)

\* fail counts for which the Gateway returns a response
Succeeding == 0..DefaultMaxRetries
Exhausted == DefaultMaxRetries + 1

TurnEnvs(maxcalls) ==
    \* a fault before the first Gateway call
    {Env(t, f, 0, NoChoices, <<>>, 0, NoChoices) :
        t \in TemplateStates, f \in {"load", "assemble", "extract", "call1"}}
    \* first call Unavailable
    \cup {Env(t, "none", Exhausted, NoChoices, <<>>, 0, NoChoices) : t \in TemplateStates}
    \* first call answered: a response without choices, or without tool calls
    \cup {Env(t, f, k, r, <<>>, 0, NoChoices) :
            t \in TemplateStates, f \in {"none", "resolve", "package"}, k \in Succeeding,
            r \in {NoChoices} \cup {Answer(c, <<>>) : c \in Contents1}}
    \* first call answered with tool calls, second call Unavailable
    \cup {Env(t, f, k, Answer(c, CallsOf(cs)), OutcomesOf(cs), Exhausted, NoChoices) :
            t \in TemplateStates, f \in {"none", "call2", "package"}, k \in Succeeding,
            c \in Contents1, cs \in PlainCallLists(maxcalls)}
    \* first call answered with tool calls, second call answered
    \cup {Env(t, "none", k, Answer(c, CallsOf(cs)), OutcomesOf(cs), k2, r2) :
            t \in TemplateStates, k \in Succeeding,
            c \in Contents1, cs \in PlainCallLists(maxcalls), k2 \in Succeeding,
            r2 \in {NoChoices} \cup {Answer(c2, <<>>) : c2 \in Contents2}}
    \* both calls answered, a fault while the output is packaged
    \cup {Env(t, "package", k, Answer(c, CallsOf(cs)), OutcomesOf(cs), k2,
              Answer(<<"a", "2">>, <<>>)) :
            t \in TemplateStates, k \in Succeeding,
            c \in Contents1, cs \in PlainCallLists(maxcalls), k2 \in Succeeding}
    \* first call answered with tool calls, second call answered with tool calls
    \cup {Env("file", "none", k, Answer(<<"a", "1">>, CallsOf(cs)), OutcomesOf(cs), k2,
              MoreCalls) :
            k \in Succeeding, cs \in PlainCallLists(maxcalls), k2 \in Succeeding}
    \* a tool raises json.JSONDecodeError, second call answered or Unavailable
    \cup {Env("file", "none", k, Answer(<<"a", "1">>, CallsOf(cs)), OutcomesOf(cs), k2,
              Answer(<<"a", "2">>, <<>>)) :
            k \in Succeeding, cs \in DecodeRaisingLists(maxcalls),
            k2 \in Succeeding \cup {Exhausted}}

-----------------------------------------------------------------------------
(* 4.5 Planner: execute_manager, agent.py:251-390 *)

\* --- the JSON documents a planner response can carry ---

\* a step record of "plans".  shape "ok": a dict with agent_name and
\* description; shape "bad": a record on which step_plan["agent_name"] or
\* step_plan["description"] raises (a key is missing, or it is not a dict) or
\* on which the lookup in AGENT_EXECUTORS raises (agent_name is a list or an
\* object, which cannot be hashed), written with the agent_name ""
PlanStep(shape, agent_name, description) ==
    [shape |-> shape, agent_name |-> agent_name, description |-> description]

\* a JSON value given for "plans": a list of step records, or a value that
\* cannot be iterated and has no len() (null, a number)
PlansList(steps) == [iterable |-> TRUE, steps |-> steps]
PlansNotIterable == [iterable |-> FALSE, steps |-> <<>>]

\* a key of the JSON object: absent, or present with a value
Absent(default) == [present |-> FALSE, val |-> default]
Present(val) == [present |-> TRUE, val |-> val]

\* a JSON document: an object with (some of) the keys total_steps, plans and
\* mode, or a value that is not an object (an array, a string, null).  A mode
\* is a string; the mode null is written "None"
JsonObject(total_steps, plans, mode) ==
    [object |-> TRUE, total_steps |-> total_steps, plans |-> plans, mode |-> mode]
JsonOther ==
    [object |-> FALSE, total_steps |-> Absent(IntVal(1)), plans |-> Absent(PlansList(<<>>)),
     mode |-> Absent("chat")]

\* plan_data.get(key, default)
DictGet(field, default) == IF field.present THEN field.val ELSE default

\* agent names that occur in the text of a document
NamesInDoc(doc) ==
    IF doc.object /\ doc.plans.present
    THEN {doc.plans.val.steps[i].agent_name :
             i \in {j \in 1..Len(doc.plans.val.steps) : doc.plans.val.steps[j].shape = "ok"}}
    ELSE {}

\* --- the text of a planner response ---
\* A content is a sequence of tokens separated by single blanks, and the
\* document that the token "DOC" stands for.  Tokens: the two code-fence
\* markers (three backquotes followed by json, and three backquotes alone),
\* the identity keywords, the one-character word "x", and "DOC", the text
\* of a JSON document.

FenceJson == "[fence-json]"
Fence == "[fence]"
Keywords == <<"kiki", "ager", "ramu", "coli">>
ContentTokens == {FenceJson, Fence, "x", "DOC", "kiki", "ager", "ramu", "coli"}

Content(toks, doc) == [toks |-> toks, doc |-> doc]

\* content.find(marker): index of the first token that contains the marker
\* at or after position from, 0 when there is none (the json fence marker
\* contains the plain one)
RECURSIVE FindToken(_, _, _)
FindToken(toks, markers, from) ==
    IF from > Len(toks) THEN 0
    ELSE IF toks[from] \in markers THEN from
    ELSE FindToken(toks, markers, from + 1)

\* text[:-1] on the last token: the one-character word disappears, any other
\* token is left incomplete
DropLastChar(toks) ==
    IF toks = <<>> THEN <<>>
    ELSE IF toks[Len(toks)] = "x" THEN SubSeq(toks, 1, Len(toks) - 1)
    ELSE SubSeq(toks, 1, Len(toks) - 1) \o <<"partial">>

\* response_content[json_start:json_end].strip() with json_end from find():
\* up to the next fence, or text[json_start:-1] when find() returns -1
Between(toks, open) ==
    LET close == FindToken(toks, {Fence, FenceJson}, open + 1) IN
    IF close # 0 THEN SubSeq(toks, open + 1, close - 1)
    ELSE DropLastChar(SubSeq(toks, open + 1, Len(toks)))

\* lines 333-340
StripFences(toks) ==
    IF FindToken(toks, {FenceJson}, 1) # 0
    THEN Between(toks, FindToken(toks, {FenceJson}, 1))
    ELSE IF FindToken(toks, {Fence}, 1) # 0
    THEN Between(toks, FindToken(toks, {Fence}, 1))
    ELSE toks

\* json.loads: the text decodes iff it is exactly one document
JsonLoads(toks, doc) ==
    IF toks = <<"DOC">> THEN [ok |-> TRUE, doc |-> doc] ELSE [ok |-> FALSE, doc |-> JsonOther]

\* keyword in content
InContent(keyword, content) ==
    \/ \E i \in 1..Len(content.toks) : content.toks[i] = keyword
    \/ (\E i \in 1..Len(content.toks) : content.toks[i] = "DOC")
       /\ keyword \in NamesInDoc(content.doc)

\* a scan that takes the keyword that stands first in the text, from token i
RECURSIVE KeywordAgent_ByPosition(_, _)
KeywordAgent_ByPosition(content, i) ==
    IF i > Len(content.toks) THEN "bibi"
    ELSE IF \E k \in 1..4 : content.toks[i] = <<"kiki", "ager", "ramu", "coli">>[k]
    THEN content.toks[i]
    ELSE KeywordAgent_ByPosition(content, i + 1)

\* the if/elif chain of lines 357-366
RECURSIVE KeywordAgent(_, _)
KeywordAgent(content, i) ==
    IF i > Len(Keywords) THEN "bibi"
    ELSE IF InContent(Keywords[i], content) THEN Keywords[i]
    ELSE KeywordAgent(content, i + 1)

\* the three synthesized plans
UnavailablePlan ==
    AgentPlan(IntVal(1), PlansList(<<PlanStep("ok", "bibi", "basic answer to the request")>>),
              "chat")
KeywordPlan_Default(agent_name) ==
    AgentPlan(IntVal(1), PlansList(<<PlanStep("ok", "bibi", "handle the request")>>),
              "chat")
KeywordPlan(agent_name) ==
    AgentPlan(IntVal(1), PlansList(<<PlanStep("ok", agent_name, "handle the request")>>),
              "chat")
ErrorPlan ==
    AgentPlan(IntVal(1), PlansList(<<PlanStep("ok", "bibi", "basic answer after an error")>>),
              "chat")

\* lines 345-349
DecodedPlan(doc) ==
    AgentPlan(DictGet(doc.total_steps, IntVal(1)),
              DictGet(doc.plans, PlansList(<<>>)),
              DictGet(doc.mode, "chat"))

\* a planner response: the transport failures before it, and the response
\* (no choices, content None, or a content text)
PlannerEnv(fault, fails, choices, content_is_none, content) ==
    [fault |-> fault, fails |-> fails, choices |-> choices,
     content_is_none |-> content_is_none, content |-> content]

\* except Exception around the whole body, lines 271/379
ManagerExcept(stage) == TRUE

\* the test of line 315 left out
ResponseIsNone_Never(call) == FALSE

\* line 315: response is None
ResponseIsNone(call) == ~call.ok

\* execute_manager.  branch names the return statement taken
execute_manager(u, ctx, env) ==
    LET base_prompt == load_prompt("manager", "file")
        last_user_message == LastUserMessage(u.chat_history)
        prompt == create_context_prompt(u, ctx, base_prompt)
        plan_request == <<"user request:">> \o last_user_message
                        \o <<"plan at most 3 steps; answer in JSON">>
        messages == <<Message("system", prompt.text, <<>>, 0),
                      Message("user", plan_request, <<>>, 0)>>
        call == GatewayCall(messages, <<>>, env.fails)
        stripped == StripFences(env.content.toks)
        decoded == JsonLoads(stripped, env.content.doc)
        OnError(calls) ==
            IF ManagerExcept(env.fault)
            THEN [pc |-> "returned", plan |-> ErrorPlan, branch |-> "error", calls |-> calls]
            ELSE [pc |-> "raised", plan |-> ErrorPlan, branch |-> "error", calls |-> calls]
    IN
    IF env.fault = "prompt" \/ prompt.fault THEN OnError(<<>>)
    ELSE IF ResponseIsNone(call)
    THEN [pc |-> "returned", plan |-> UnavailablePlan, branch |-> "unavailable",
          calls |-> <<call>>]
    ELSE IF ~call.ok \/ env.choices = 0 \/ env.content_is_none THEN OnError(<<call>>)
    ELSE IF decoded.ok
    THEN IF decoded.doc.object
         THEN [pc |-> "returned", plan |-> DecodedPlan(decoded.doc), branch |-> "decoded",
               calls |-> <<call>>]
         ELSE OnError(<<call>>)
    ELSE [pc |-> "returned", plan |-> KeywordPlan(KeywordAgent(env.content, 1)),
          branch |-> "keyword", calls |-> <<call>>]

\* --- the responses a planner call can get ---

StepOptions ==
    {PlanStep("ok", n, "d") : n \in {"kiki", "other", NumberName}}
    \cup {PlanStep("bad", "", "d")}

StepLists(maxlen) == UNION {[1..n -> StepOptions] : n \in 0..maxlen}

\* documents without a mode, and documents of at most one step with a mode
Docs(maxlen) ==
    {JsonOther} \cup
    {JsonObject(ts, pl, Absent("chat")) :
        ts \in {Absent(IntVal(1)), Present(NonInt)}
               \cup {Present(IntVal(n)) : n \in 0..(maxlen + 1)},
        pl \in {Absent(PlansList(<<>>)), Present(PlansNotIterable)}
               \cup {Present(PlansList(steps)) : steps \in StepLists(maxlen)}}
    \cup {JsonObject(ts, pl, md) :
             ts \in {Absent(IntVal(1)), Present(IntVal(1))},
             pl \in {Absent(PlansList(<<>>))}
                    \cup {Present(PlansList(steps)) : steps \in StepLists(1)},
             md \in {Present("agent"), Present("None")}}

TokenSeqs(maxtoks) == UNION {[1..n -> ContentTokens] : n \in 0..maxtoks}

HasDoc(toks) == \E i \in 1..Len(toks) : toks[i] = "DOC"

\* the document matters only to a text that contains it
DocsFor(toks, maxlen) == IF HasDoc(toks) THEN Docs(maxlen) ELSE {JsonOther}

Contents(maxtoks, maxlen) ==
    UNION {{Content(toks, doc) : doc \in DocsFor(toks, maxlen)} :
             toks \in TokenSeqs(maxtoks)}

NoContent == Content(<<>>, JsonOther)

\* the calls that end without a usable content
PlannerFaultEnvs ==
    {PlannerEnv("prompt", 0, 0, FALSE, NoContent)}
    \cup {PlannerEnv("none", Exhausted, 0, FALSE, NoContent)}
    \cup {PlannerEnv("none", k, 0, FALSE, NoContent) : k \in Succeeding}
    \cup {PlannerEnv("none", k, 1, TRUE, NoContent) : k \in Succeeding}

AnsweringEnv(c) == PlannerEnv("none", 0, 1, FALSE, c)

PlannerEnvs(maxtoks, maxlen) ==
    PlannerFaultEnvs \cup {AnsweringEnv(c) : c \in Contents(maxtoks, maxlen)}

-----------------------------------------------------------------------------
(* 4.6 Plan Executor: execute_plan, agent.py:515-565 *)

\* keys of AGENT_EXECUTORS, agent.py:507-513
AGENT_EXECUTORS == {"bibi", "kiki", "ager", "ramu", "coli"}

\* a dispatch without the substitution: kiki's runner for any other name
RunnerFor_NoDefault(agent_name) == IF agent_name = "bibi" THEN "bibi" ELSE "kiki"

\* lines 553-557: the runner invoked for a step
RunnerFor(agent_name) == IF agent_name \in AGENT_EXECUTORS THEN agent_name ELSE "bibi"

\* a context that takes over the lists and the step counter that session 1
\* holds at the time of the call
FreshContext_Reused(a_plan) ==
    AgentContexts(heap[sess[1].agent_id_history], a_plan.total_steps,
                  sess[1].current_step, heap[sess[1].agent_output])

\* lines 536-541
FreshContext(a_plan) == AgentContexts(<<>>, a_plan.total_steps, 0, <<>>)

-----------------------------------------------------------------------------
(* Specification of one Gateway call: the retry loop, attempt by attempt *)

\* the state of the components a specification does not exercise
GwIdle ==
    /\ gw = GwEnter(0)
    /\ gw_script = <<>>
    /\ gw_max_retries = 0

AgentIdle ==
    /\ user_ctx = UserContexts(<<>>, <<>>)
    /\ agent_ctx = AgentContexts(<<>>, IntVal(1), 0, <<>>)
    /\ ag_name = "bibi"
    /\ ag_env = <<>>
    /\ ag_ret = <<>>

PlannerIdle ==
    /\ pl_env = <<>>
    /\ pl_ret = <<>>

ExecutorIdle ==
    /\ phase = "Idle"
    /\ plan = ErrorPlan
    /\ plan_ctx = FreshContext(ErrorPlan)
    /\ step_idx = 0
    /\ runs = <<>>

\* the components exercised only by a specification of their own
\* process_user_message has not been called
UiIdle ==
    [pc |-> "Idle", ctx |-> AgentContexts(<<>>, IntVal(1), 0, <<>>), step_idx |-> 0,
     runs |-> <<>>]

AuxIdle ==
    /\ ui = UiIdle
    /\ ui_input = <<>>
    /\ rs_in = <<>>
    /\ rs_ret = <<>>
    /\ heap = <<>>
    /\ sess = <<>>
    /\ clock = 0
    /\ probe = <<>>
    /\ prompts = <<>>

GwInit ==
    /\ AuxIdle
    /\ AgentIdle
    /\ PlannerIdle
    /\ ExecutorIdle
    /\ gw_max_retries \in 0..MaxRetries
    /\ gw_script \in Scripts(MaxRetries)
    /\ gw = GwEnter(gw_max_retries)

GwAttempt ==
    /\ gw.pc = "loop"
    /\ gw' = GwIterate(gw, gw_script[gw.calls + 1], gw_max_retries)
    /\ UNCHANGED <<auxVars, gw_script, gw_max_retries, ctxVars, agVars, plVars, exVars>>

GwNext == GwAttempt

SpecGateway == GwInit /\ [][GwNext]_vars

-----------------------------------------------------------------------------
(* Specification of one agent turn: execute_agent on a context that a plan *)
(* execution can hand to it                                                *)

\* the chat history when a request is processed: the welcome turn, earlier
\* turns, and the user's request last
SampleChats ==
    {<<ChatMessage("assistant", welcome_message, 0, NoneVal),
       ChatMessage("user", <<"q">>, 1, NoneVal)>>}

SampleUsers == {UserContexts(<<<<"name", "kim">>>>, h) : h \in SampleChats}

\* what the collaborators of an earlier step's turn did: the model answered
\* at once, or the Gateway was Unavailable
PriorAnswered == Env("file", "none", 0, Answer(<<"a", "1">>, <<>>), <<>>, 0, NoChoices)
PriorUnavailable == Env("file", "none", Exhausted, NoChoices, <<>>, 0, NoChoices)
PriorEnvs == {PriorAnswered, PriorUnavailable}

\* agent.py:553-557: the output the runner of a step returns on the context
\* it is handed; execute_agent's own except clause returns for every fault
StepResult(agent_name, u, ctx, env) ==
    execute_agent(RunnerFor(agent_name), u, ctx, env).result

\* the agent_name of an earlier step: a recognized agent, a name that is
\* none, and a name that is not a string
PriorNames == {"kiki", "other", NumberName}

\* agent.py:546-560 for the steps before the one at hand: each runner's
\* output is appended under the step's agent_name
RECURSIVE CtxAfter(_, _, _, _, _)
CtxAfter(u, ctx, names, envs, i) ==
    IF i > Len(names) THEN ctx
    ELSE CtxAfter(u, add_agent_result(ctx, names[i],
                                      StepResult(names[i], u, ctx, envs[i])),
                  names, envs, i + 1)

\* total_step of a plan's context: a count, or a value that is not an int
TotalSteps(maxlen) == {IntVal(n) : n \in 0..maxlen} \cup {NonInt}

\* the context execute_plan hands to the runner of the first step
FirstStepCtxs(maxlen) == {AgentContexts(<<>>, t, 0, <<>>) : t \in TotalSteps(maxlen)}

\* the contexts execute_plan hands to the runner of a step: total_step from
\* the plan, the results of the earlier steps appended
StepCtxs(u, maxlen, envs) ==
    UNION {{CtxAfter(u, first, names, es, 1) :
                first \in FirstStepCtxs(maxlen),
                names \in [1..n -> PriorNames], es \in [1..n -> envs]} :
           n \in 0..(maxlen - 1)}

\* the collaborators of the turn of a later step
LaterTurnEnvs == {e \in TurnEnvs(1) : e.template = "file"}

AgPending == [pc |-> "ready", result |-> NoOutput, log |-> [calls |-> <<>>, executed |-> <<>>]]

AgInit ==
    /\ AuxIdle
    /\ GwIdle
    /\ PlannerIdle
    /\ ExecutorIdle
    /\ user_ctx \in SampleUsers
    /\ ag_name \in {"bibi", "kiki"}
    /\ \/ /\ agent_ctx \in FirstStepCtxs(MaxPlanLen)
          /\ ag_env \in TurnEnvs(MaxTurnCalls)
       \/ /\ agent_ctx \in StepCtxs(user_ctx, MaxPlanLen, PriorEnvs)
          /\ ag_env \in LaterTurnEnvs
    /\ ag_ret = AgPending

AgTurn ==
    /\ ag_ret.pc = "ready"
    /\ ag_ret' = execute_agent(ag_name, user_ctx, agent_ctx, ag_env)
    /\ UNCHANGED <<auxVars, gwVars, ctxVars, ag_name, ag_env, plVars, exVars>>

AgNext == AgTurn

SpecAgent == AgInit /\ [][AgNext]_vars

-----------------------------------------------------------------------------
(* Specification of one planning call: execute_manager on the session's    *)
(* contexts, for every response of the model                               *)

\* st.session_state.agent_contexts: AgentContexts() with the default fields
SessionAgentCtx == AgentContexts(<<>>, IntVal(1), 0, <<>>)

PlPending == [pc |-> "ready", plan |-> ErrorPlan, branch |-> "none", calls |-> <<>>]

PlInit ==
    /\ AuxIdle
    /\ GwIdle
    /\ user_ctx \in SampleUsers
    /\ agent_ctx = SessionAgentCtx
    /\ ag_name = "bibi"
    /\ ag_env = <<>>
    /\ ag_ret = <<>>
    /\ ExecutorIdle
    /\ \/ pl_env \in PlannerFaultEnvs
       \/ \E toks \in TokenSeqs(MaxTokens) :
            \E doc \in DocsFor(toks, MaxPlanLen) :
                pl_env = AnsweringEnv(Content(toks, doc))
    /\ pl_ret = PlPending

PlCall ==
    /\ pl_ret.pc = "ready"
    /\ pl_ret' = execute_manager(user_ctx, agent_ctx, pl_env)
    /\ UNCHANGED <<auxVars, gwVars, ctxVars, agVars, pl_env, exVars>>

PlNext == PlCall

SpecPlanner == PlInit /\ [][PlNext]_vars

-----------------------------------------------------------------------------
(* Specification of one request: the Planner produces a plan and the Plan  *)
(* Executor runs it step by step                                            *)

\* the planner responses of a request: every document, bare or next to one
\* other token
RequestPlannerEnvs == PlannerEnvs(1, MaxPlanLen)

\* what the collaborators of a step's turn do: every stage fault, Gateway
\* calls that succeed at once or are exhausted, and at most one tool call,
\* to a registered tool
StepTurnEnvs ==
    {e \in TurnEnvs(1) :
        /\ e.template = "file"
        /\ e.fail1 \in {0, Exhausted}
        /\ e.fail2 \in {0, Exhausted}
        /\ e.outcomes \in {<<>>, <<"returns">>}
        /\ e.response1.choices # <<>> =>
             \A i \in 1..Len(e.response1.choices[1].tool_calls) :
                /\ e.response1.choices[1].tool_calls[i].name = "get_latest_news"
                /\ e.response1.choices[1].tool_calls[i].arguments = "{}"}

Init ==
    /\ AuxIdle
    /\ GwIdle
    /\ PlannerIdle
    /\ user_ctx \in SampleUsers
    /\ agent_ctx = SessionAgentCtx
    /\ ag_name = "bibi"
    /\ ag_env = <<>>
    /\ ag_ret = <<>>
    /\ phase = "Planning"
    /\ plan = ErrorPlan
    /\ plan_ctx = FreshContext(ErrorPlan)
    /\ step_idx = 0
    /\ runs = <<>>

\* execute_manager(user_ctx, agent_ctx)
ManagerPlans ==
    /\ phase = "Planning"
    /\ \E env \in RequestPlannerEnvs :
          LET ret == execute_manager(user_ctx, agent_ctx, env) IN
          /\ plan' = ret.plan
          /\ phase' = IF ret.pc = "raised" THEN "Raised" ELSE "Planned"
    /\ UNCHANGED <<auxVars, gwVars, ctxVars, agVars, plVars, plan_ctx, step_idx, runs>>

\* execute_plan, lines 536-546: the fresh context and the entry of the loop;
\* enumerate() raises a TypeError on a plans value that cannot be iterated
PlanStart ==
    /\ phase = "Planned"
    /\ plan_ctx' = FreshContext(plan)
    /\ step_idx' = 0
    /\ phase' = IF plan.plans.iterable THEN "Running" ELSE "Raised"
    /\ UNCHANGED <<auxVars, gwVars, ctxVars, agVars, plVars, plan, runs>>

\* a loop that walks the plan from its last step to its first
StepAt_Reversed(a_plan, i) == a_plan.plans.steps[Len(a_plan.plans.steps) - i]

\* line 546: for i, step_plan in enumerate(plan.plans)
StepAt(a_plan, i) == a_plan.plans.steps[i + 1]

\* one iteration of the loop, lines 546-562, with a runner whose
\* collaborators do what env says
PlanStepWith(env) ==
    LET step_plan == StepAt(plan, step_idx) IN
    IF step_plan.shape # "ok"
    THEN /\ phase' = "Raised"
         /\ UNCHANGED <<plan_ctx, step_idx, runs>>
    ELSE LET runner == RunnerFor(step_plan.agent_name)
             ret == execute_agent(runner, user_ctx, plan_ctx, env)
         IN
         /\ runs' = Append(runs, [runner |-> runner, step |-> step_idx,
                                  seen |-> plan_ctx])
         /\ IF ret.pc = "raised"
            THEN /\ phase' = "Raised"
                 /\ UNCHANGED <<plan_ctx, step_idx>>
            ELSE /\ plan_ctx' = add_agent_result(plan_ctx, step_plan.agent_name,
                                                 ret.result)
                 /\ step_idx' = step_idx + 1
                 /\ phase' = "Running"

PlanStepRun ==
    /\ phase = "Running"
    /\ step_idx < Len(plan.plans.steps)
    /\ \E env \in StepTurnEnvs : PlanStepWith(env)
    /\ UNCHANGED <<auxVars, gwVars, ctxVars, agVars, plVars, plan>>

\* the end of the loop and return agent_ctx, line 565
PlanReturn ==
    /\ phase = "Running"
    /\ step_idx = Len(plan.plans.steps)
    /\ phase' = "Completed"
    /\ UNCHANGED <<auxVars, gwVars, ctxVars, agVars, plVars, plan, plan_ctx, step_idx, runs>>

Next == ManagerPlans \/ PlanStart \/ PlanStepRun \/ PlanReturn

Spec == Init /\ [][Next]_vars

\* the loop of execute_plan is sequential code: when every model call and
\* tool call returns or fails in finite time, the next iteration and the
\* return statement are eventually executed
SpecLive == Spec /\ WF_vars(PlanStart) /\ WF_vars(PlanStepRun) /\ WF_vars(PlanReturn)

-----------------------------------------------------------------------------
(* Specification of one Resolver call: execute_tools_if_needed on every    *)
(* response the Gateway can hand over                                      *)

\* the requested calls of a response: for each a tool_call.id (1 or 2; two
\* calls of a response can carry the same one) and a case
RsCalls(maxlen) == UNION {[1..n -> {1, 2} \X CallCases] : n \in 0..maxlen}

RsCallsOf(cs) == [i \in 1..Len(cs) |-> ToolCall(cs[i][1], cs[i][2][1], cs[i][2][2])]
RsOutcomesOf(cs) == [i \in 1..Len(cs) |-> cs[i][2][3]]

\* the arguments of a call and what each called tool does
RsInputs(maxlen) ==
    {[response |-> NoChoices, available_tools |-> TOOL_FUNCTIONS, outcomes |-> <<>>]}
    \cup {[response |-> Answer(c, RsCallsOf(cs)), available_tools |-> TOOL_FUNCTIONS,
           outcomes |-> RsOutcomesOf(cs)] :
            c \in Contents1, cs \in RsCalls(maxlen)}

RsInit ==
    /\ ui = UiIdle
    /\ ui_input = <<>>
    /\ heap = <<>>
    /\ sess = <<>>
    /\ clock = 0
    /\ probe = <<>>
    /\ prompts = <<>>
    /\ GwIdle
    /\ AgentIdle
    /\ PlannerIdle
    /\ ExecutorIdle
    /\ rs_in \in RsInputs(MaxCalls)
    /\ rs_ret = [pc |-> "ready", content |-> <<>>, additional_messages |-> <<>>,
                 executed |-> <<>>]

\* content, additional_messages = execute_tools_if_needed(response, tools)
RsCall ==
    /\ rs_ret.pc = "ready"
    /\ LET r == execute_tools_if_needed(rs_in.response, rs_in.available_tools,
                                        rs_in.outcomes) IN
       rs_ret' = [pc |-> IF r.fault THEN "raised" ELSE "returned",
                  content |-> r.content,
                  additional_messages |-> r.additional_messages,
                  executed |-> r.executed]
    /\ UNCHANGED <<rs_in, ssVars, uiVars, gwVars, ctxVars, agVars, plVars, exVars>>

RsNext == RsCall

SpecResolver == RsInit /\ [][RsNext]_vars

-----------------------------------------------------------------------------
(* Specification of two user sessions: each owns a UserContexts and an     *)
(* AgentContexts object, whose lists are objects of the heap; the sessions *)
(* perform their operations in any interleaving                            *)

\* one default_factory that hands the same list object to every instance
DefaultFactory_Shared(h) == 1

\* field(default_factory=list): every instance gets a list object of its own
DefaultFactory(h) == Len(h) + 1

\* initialize_session_state in a new session: UserContexts(user_info=...),
\* AgentContexts(), and the welcome turn; returns the heap and the session
initialize_session_state(h, user_info, now) ==
    LET alloc(hp, addr) == IF addr > Len(hp) THEN Append(hp, <<>>) ELSE hp
        chat == DefaultFactory(h)
        h1 == alloc(h, chat)
        hist == DefaultFactory(h1)
        h2 == alloc(h1, hist)
        out == DefaultFactory(h2)
        h3 == alloc(h2, out)
        welcomed == add_assistant_message(UserContexts(user_info, h3[chat]),
                                          welcome_message, NoneVal, now)
    IN [heap |-> [h3 EXCEPT ![chat] = welcomed.chat_history],
        session |-> [user_info |-> user_info, chat_history |-> chat,
                     agent_id_history |-> hist, agent_output |-> out,
                     total_step |-> IntVal(1), current_step |-> 0, ops |-> 0]]

\* the contexts of session sid as values: its lists read from the heap
View(sid) ==
    [user |-> UserContexts(sess[sid].user_info, heap[sess[sid].chat_history]),
     agent |-> AgentContexts(heap[sess[sid].agent_id_history], sess[sid].total_step,
                             sess[sid].current_step, heap[sess[sid].agent_output])]

SsInit ==
    /\ ui = UiIdle
    /\ ui_input = <<>>
    /\ LET first == initialize_session_state(<<>>, <<<<"name", "kim">>>>, 0)
           second == initialize_session_state(first.heap, <<<<"name", "lee">>>>, 1)
       IN /\ heap = second.heap
          /\ sess = <<first.session, second.session>>
    /\ GwIdle
    /\ AgentIdle
    /\ PlannerIdle
    /\ ExecutorIdle
    /\ rs_in = <<>>
    /\ rs_ret = <<>>
    /\ clock = 2
    /\ probe = [sid |-> 0, op |-> "init", user |-> <<>>, agent |-> <<>>]
    /\ prompts = <<>>

\* st.session_state.user_contexts.add_user_message(user_input)
SsUserMessage(sid) ==
    /\ sess[sid].ops < MaxSessionOps
    /\ heap' = [heap EXCEPT ![sess[sid].chat_history] =
                    add_user_message(View(sid).user, <<"q">>, clock).chat_history]
    /\ sess' = [sess EXCEPT ![sid].ops = @ + 1]
    /\ clock' = clock + 1
    /\ probe' = [sid |-> sid, op |-> "add_user_message", user |-> <<>>, agent |-> <<>>]
    /\ UNCHANGED <<prompts, rsVars, uiVars, gwVars, ctxVars, agVars, plVars, exVars>>

\* st.session_state.user_contexts.add_assistant_message(output, progress=...)
SsAssistantMessage(sid) ==
    /\ sess[sid].ops < MaxSessionOps
    /\ heap' = [heap EXCEPT ![sess[sid].chat_history] =
                    add_assistant_message(View(sid).user, <<"a", "1">>, <<"done">>,
                                          clock).chat_history]
    /\ sess' = [sess EXCEPT ![sid].ops = @ + 1]
    /\ clock' = clock + 1
    /\ probe' = [sid |-> sid, op |-> "add_assistant_message", user |-> <<>>, agent |-> <<>>]
    /\ UNCHANGED <<prompts, rsVars, uiVars, gwVars, ctxVars, agVars, plVars, exVars>>

\* the plan a session executes: total_steps 2 in session 1, a total_steps
\* that is not an int in session 2
SessionPlan(sid) ==
    AgentPlan(IF sid = 1 THEN IntVal(2) ELSE NonInt,
              PlansList(<<PlanStep("ok", "kiki", "d"), PlanStep("ok", "ager", "d")>>),
              "chat")

\* the request's agent_ctx = AgentContexts(total_step=plan.total_steps,
\* current_step=0, agent_id_history=[], agent_output=[]): two new list objects
SsPlanStart(sid) ==
    /\ sess[sid].ops < MaxSessionOps
    /\ LET fresh == FreshContext(SessionPlan(sid)) IN
          /\ heap' = heap \o <<fresh.agent_id_history, fresh.agent_output>>
          /\ sess' = [sess EXCEPT ![sid].agent_id_history = Len(heap) + 1,
                                  ![sid].agent_output = Len(heap) + 2,
                                  ![sid].total_step = fresh.total_step,
                                  ![sid].current_step = fresh.current_step,
                                  ![sid].ops = @ + 1]
    /\ probe' = [sid |-> sid, op |-> "plan_start", user |-> <<>>, agent |-> <<>>]
    /\ UNCHANGED <<clock, prompts, rsVars, uiVars, gwVars, ctxVars, agVars, plVars, exVars>>

\* what the collaborators of a session's turns do: the model answers, except
\* that the Gateway is Unavailable during the first turn of session 2
SessionTurnEnv(sid) ==
    IF sid = 2 /\ sess[sid].current_step = 0 THEN PriorUnavailable ELSE PriorAnswered

\* agent_ctx.add_agent_result(agent_name, result), with the result the
\* runner of the step returns on the session's contexts
SsAgentResult(sid) ==
    /\ sess[sid].ops < MaxSessionOps
    /\ LET name == IF sid = 1 THEN "kiki" ELSE NumberName
           added == add_agent_result(View(sid).agent, name,
                                     StepResult(name, View(sid).user, View(sid).agent,
                                                SessionTurnEnv(sid)))
       IN /\ heap' = [heap EXCEPT ![sess[sid].agent_id_history] = added.agent_id_history,
                                  ![sess[sid].agent_output] = added.agent_output]
          /\ sess' = [sess EXCEPT ![sid].current_step = added.current_step,
                                  ![sid].ops = @ + 1]
    /\ probe' = [sid |-> sid, op |-> "add_agent_result", user |-> <<>>, agent |-> <<>>]
    /\ UNCHANGED <<clock, prompts, rsVars, uiVars, gwVars, ctxVars, agVars, plVars, exVars>>

\* from_json(to_json(ctx)) of both contexts of the session
SsRoundTrip(sid) ==
    /\ probe' = [sid |-> sid, op |-> "round_trip",
                 user |-> UserContexts_from_json(UserContexts_to_json(View(sid).user)),
                 agent |-> AgentContexts_from_json(AgentContexts_to_json(View(sid).agent))]
    /\ UNCHANGED <<heap, sess, clock, prompts, rsVars, uiVars, gwVars, ctxVars, agVars, plVars,
                   exVars>>

\* agent.py:223: recent_chats = user_ctx.chat_history[-5:]; a slice is a new
\* list object, the list it is taken from keeps its turns
SliceRecent(h, addr) == [heap |-> Append(h, RecentOf(h[addr])), ref |-> Len(h) + 1]

\* create_context_prompt on the objects of a session, agent.py:213-245: the
\* only object it creates is the slice, which it reads the turns from and
\* which nothing refers to after the return; it assigns to no attribute of
\* either context and calls no method of their lists
AssembleOn(h, s, base_prompt) ==
    LET sliced == SliceRecent(h, s.chat_history)
        h1 == sliced.heap
        shown == IF h1[s.chat_history] = <<>> THEN <<>> ELSE h1[sliced.ref]
    IN  [result |-> create_context_prompt(
                        UserContexts(s.user_info, shown),
                        AgentContexts(h1[s.agent_id_history], s.total_step,
                                      s.current_step, h1[s.agent_output]),
                        base_prompt),
         heap |-> SubSeq(h1, 1, Len(h)),
         session |-> s]

\* create_context_prompt(user_ctx, agent_ctx, base_prompt) on the session's
\* contexts; prompts keeps the arguments and result of a first call and of a
\* later call with the same arguments
SsAssemble(sid) ==
    /\ LET base_prompt == load_prompt("bibi", "file")
           done == AssembleOn(heap, sess[sid], base_prompt)
           call == [user |-> View(sid).user, agent |-> View(sid).agent,
                    base_prompt |-> base_prompt, result |-> done.result]
       IN /\ prompts # <<>> =>
                /\ call.user = prompts[1].user
                /\ call.agent = prompts[1].agent
          /\ prompts' = IF prompts = <<>> THEN <<call>> ELSE <<prompts[1], call>>
          /\ heap' = done.heap
          /\ sess' = [sess EXCEPT ![sid] = done.session]
    /\ probe' = [sid |-> sid, op |-> "create_context_prompt", user |-> <<>>, agent |-> <<>>]
    /\ UNCHANGED <<clock, rsVars, uiVars, gwVars, ctxVars, agVars, plVars, exVars>>

\* sidebar, profile form submitted: user_contexts.user_info = {...}
SsProfileUpdate(sid) ==
    /\ sess[sid].ops < MaxSessionOps
    /\ sess[sid].user_info # <<<<"name", "park">>>>
    /\ sess' = [sess EXCEPT ![sid].user_info = <<<<"name", "park">>>>,
                            ![sid].ops = @ + 1]
    /\ probe' = [sid |-> sid, op |-> "profile_update", user |-> <<>>, agent |-> <<>>]
    /\ UNCHANGED <<heap, clock, prompts, rsVars, uiVars, gwVars, ctxVars, agVars, plVars, exVars>>

\* sidebar, chat reset button: user_contexts.chat_history = [] (a new list
\* object), then initialize_session_state(), which finds the history empty
\* and adds the welcome turn
SsChatReset(sid) ==
    /\ sess[sid].ops < MaxSessionOps
    /\ heap' = Append(heap, add_assistant_message(UserContexts(sess[sid].user_info, <<>>),
                                                  welcome_message, NoneVal,
                                                  clock).chat_history)
    /\ sess' = [sess EXCEPT ![sid].chat_history = Len(heap) + 1,
                            ![sid].ops = @ + 1]
    /\ clock' = clock + 1
    /\ probe' = [sid |-> sid, op |-> "chat_reset", user |-> <<>>, agent |-> <<>>]
    /\ UNCHANGED <<prompts, rsVars, uiVars, gwVars, ctxVars, agVars, plVars, exVars>>

SsNext ==
    \E sid \in {1, 2} :
        \/ SsUserMessage(sid)
        \/ SsAssistantMessage(sid)
        \/ SsPlanStart(sid)
        \/ SsAgentResult(sid)
        \/ SsRoundTrip(sid)
        \/ SsAssemble(sid)

SpecSessions == SsInit /\ [][SsNext]_vars

\* the operations on the profile and the chat history that the page offers:
\* the chat input and the two sidebar actions
SbNext ==
    \E sid \in {1, 2} :
        \/ SsUserMessage(sid)
        \/ SsAssistantMessage(sid)
        \/ SsProfileUpdate(sid)
        \/ SsChatReset(sid)

SpecSidebar == SsInit /\ [][SbNext]_vars

-----------------------------------------------------------------------------
(* Claims about the Gateway, checked under SpecGateway *)

\* number of leading failures of the script, counted up to position n
RECURSIVE LeadingFailures(_, _)
LeadingFailures(script, n) ==
    IF n > Len(script) THEN Len(script)
    ELSE IF script[n] = "ok" THEN n - 1
    ELSE LeadingFailures(script, n + 1)

\* C1: when the transport fails exactly k times and then succeeds, with
\* k <= max_retries, the call returns the response of attempt k+1, has made
\* exactly k+1 attempts when it returns, never makes more than k+1 attempts,
\* and raises nothing.
C1_RetrySuccess ==
    LET k == LeadingFailures(gw_script, 1) IN
    (k <= gw_max_retries /\ k < Len(gw_script)) =>
        /\ gw.calls <= k + 1
        /\ gw.result.kind # "raised"
        /\ gw.pc = "returned" => (gw.result = ResponseOf(k + 1) /\ gw.calls = k + 1)

C1_Witness ==
    /\ gw.pc = "returned"
    /\ LeadingFailures(gw_script, 1) = 2
    /\ gw_max_retries >= 2
    /\ gw.result = ResponseOf(3)
    /\ gw.calls = 3

\* C2: when every transport call fails and max_retries = r, the call returns
\* the Unavailable signal (None) after exactly r+1 attempts and does not raise.
C2_RetryExhaustion ==
    (\A n \in 1..(gw_max_retries + 1) : gw_script[n] # "ok") =>
        /\ gw.result.kind # "raised"
        /\ gw.calls <= gw_max_retries + 1
        /\ gw.pc = "returned" => (gw.result = Unavailable /\ gw.calls = gw_max_retries + 1)

C2_Witness ==
    /\ gw.pc = "returned"
    /\ gw_max_retries = 2
    /\ \A n \in 1..3 : gw_script[n] # "ok"
    /\ gw.result = Unavailable
    /\ gw.calls = 3

-----------------------------------------------------------------------------
(* Claims about the Agent Runner, checked under SpecAgent *)

\* C3: every AgentOutput returned by execute_agent has a non-empty output
\* text (not None, not ""), on every path: first call Unavailable, no tool
\* calls with empty or absent content, tool round with an empty or absent
\* second answer, second call Unavailable with empty first text, caught fault.
C3_OutputNonEmpty ==
    ag_ret.pc = "returned" =>
        /\ ag_ret.result.output # NoneVal
        /\ ag_ret.result.output # <<>>

\* a tool round whose second answer has no content
C3_Witness ==
    /\ ag_ret.pc = "returned"
    /\ Len(ag_ret.log.calls) = 2
    /\ ag_env.fault = "none"
    /\ ag_env.fail2 # Exhausted
    /\ ag_env.response2.choices # <<>>
    /\ ag_env.response2.choices[1].content \in {NoneVal, <<>>}
    /\ ag_ret.result.output = NoAnswer

\* the context holds a name that str.join rejects
PromptFaults(ctx) == \E i \in 1..Len(ctx.agent_id_history) : ~IsStr(ctx.agent_id_history[i])

\* C7: execute_agent never propagates a fault: a fault raised at any stage
\* of the turn (template, prompt assembly, task text, Gateway call, tool
\* resolution, packaging) yields a returned AgentOutput with is_final = true
\* whose output is the apology naming the agent identity.
\* a statement of the turn raises: a stage fault of the environment, the
\* str.join of the prompt, response.choices[0] of a response without choices
\* (first response in the Resolver, second response in the runner), or the
\* comparison with a total_step that is not an int
TurnRaises ==
    LET answered1 == ag_env.fail1 # Exhausted
        tool_round == /\ ag_env.response1.choices # <<>>
                      /\ ag_env.response1.choices[1].tool_calls # <<>>
    IN  \/ ag_env.fault # "none"
        \/ PromptFaults(agent_ctx)
        \/ answered1 /\ ag_env.response1.choices = <<>>
        \/ answered1 /\ tool_round /\ ag_env.fail2 # Exhausted
                     /\ ag_env.response2.choices = <<>>
        \/ answered1 /\ ~agent_ctx.total_step.isint

C7_FaultContained ==
    /\ ag_ret.pc # "raised"
    /\ (ag_ret.pc = "returned" /\ TurnRaises) =>
          /\ ag_ret.result.final_output = TRUE
          /\ ag_ret.result.output = <<"sorry,", ag_name, "failed with an error; try again">>

\* the Resolver raises on a first response without choices
C7_WitnessNoChoices ==
    /\ ag_ret.pc = "returned"
    /\ ag_env.fault = "none"
    /\ ~PromptFaults(agent_ctx)
    /\ ag_env.fail1 # Exhausted
    /\ ag_env.response1.choices = <<>>
    /\ ag_ret.result.output = ApologyFault(ag_name)

\* the turn of a later step whose context has a total_step that is not an
\* int: the earlier step's record is the apology, this one's too
C7_WitnessNonInt ==
    /\ ag_ret.pc = "returned"
    /\ ag_env.fault = "none"
    /\ ~agent_ctx.total_step.isint
    /\ Len(agent_ctx.agent_output) = 1
    /\ agent_ctx.agent_id_history = <<"other">>
    /\ agent_ctx.agent_output[1].output = ApologyFault("bibi")
    /\ Len(ag_ret.log.calls) = 1
    /\ ag_ret.result.output = ApologyFault(ag_name)

C7_Witness ==
    /\ ag_ret.pc = "returned"
    /\ ag_env.fault = "resolve"
    /\ ag_name = "kiki"
    /\ ag_ret.result.final_output = TRUE
    /\ ag_ret.result.output = ApologyFault("kiki")
    /\ Len(ag_ret.log.calls) = 1

-----------------------------------------------------------------------------
(* Claims about the Planner, checked under SpecPlanner *)

\* total_steps is an int equal to len(plans)
PlanWellFormed(a_plan) ==
    /\ a_plan.total_steps.isint
    /\ a_plan.plans.iterable
    /\ a_plan.total_steps.n = Len(a_plan.plans.steps)

\* C8: execute_manager never raises and, for every model response
\* (Unavailable, undecodable text, decodable JSON of any shape), returns a
\* Plan with total_steps == len(plans).
C8_PlanWellFormed ==
    /\ pl_ret.pc # "raised"
    /\ pl_ret.pc = "returned" => PlanWellFormed(pl_ret.plan)

\* C9: when the Gateway returns Unavailable for the planning call,
\* execute_manager returns, without decoding anything, the single-step plan
\* naming bibi with total_steps = 1.
C9_PlannerFallback ==
    (pl_ret.pc # "ready" /\ pl_env.fault = "none" /\ pl_env.fails = Exhausted) =>
        /\ pl_ret.pc = "returned"
        /\ pl_ret.branch = "unavailable"
        /\ pl_ret.plan.total_steps = IntVal(1)
        /\ pl_ret.plan.plans.iterable
        /\ Len(pl_ret.plan.plans.steps) = 1
        /\ pl_ret.plan.plans.steps[1].agent_name = "bibi"
        /\ pl_ret.plan.plans.steps[1].description = "basic answer to the request"

C9_Witness ==
    /\ pl_ret.pc = "returned"
    /\ pl_env.fails = Exhausted
    /\ pl_ret.calls # <<>>
    /\ pl_ret.calls[1].attempts = DefaultMaxRetries + 1
    /\ pl_ret.plan.plans.steps[1].agent_name = "bibi"

-----------------------------------------------------------------------------
(* Claims about the Plan Executor, checked under Spec *)

\* C4: after execute_plan returns, for any plan the Planner can return,
\* len(agent_id_history) == len(agent_output) == total_step, where total_step
\* is plan.total_steps.
C4_CompletedLengths ==
    phase = "Completed" =>
        /\ plan_ctx.total_step = plan.total_steps
        /\ plan.total_steps.isint
        /\ Len(plan_ctx.agent_id_history) = Len(plan_ctx.agent_output)
        /\ Len(plan_ctx.agent_output) = plan.total_steps.n

\* C5: after a plan has been executed, the last element of agent_output has
\* is_final = true and, when total_steps > 1, every preceding element has
\* is_final = false, whatever the outcome of each step's runner.
C5_FinalFlags ==
    (phase = "Completed" /\ plan_ctx.agent_output # <<>>) =>
        LET out == plan_ctx.agent_output IN
        /\ out[Len(out)].final_output = TRUE
        /\ (plan.total_steps.isint /\ plan.total_steps.n > 1) =>
              \A i \in 1..(Len(out) - 1) : out[i].final_output = FALSE

\* the histories and the step counter agree
C6_Lengths ==
    /\ Len(plan_ctx.agent_id_history) = Len(plan_ctx.agent_output)
    /\ Len(plan_ctx.agent_output) = plan_ctx.current_step

\* a change of the context during the loop appends one identity and one output
C6_GrowTogether ==
    (phase = "Running" /\ plan_ctx' # plan_ctx) =>
        /\ Len(plan_ctx'.agent_id_history) = Len(plan_ctx.agent_id_history) + 1
        /\ Len(plan_ctx'.agent_output) = Len(plan_ctx.agent_output) + 1
        /\ SubSeq(plan_ctx'.agent_id_history, 1, Len(plan_ctx.agent_id_history))
             = plan_ctx.agent_id_history
        /\ SubSeq(plan_ctx'.agent_output, 1, Len(plan_ctx.agent_output))
             = plan_ctx.agent_output
        /\ plan_ctx'.current_step = plan_ctx.current_step + 1

\* C6: in every state of the AgentContext of a plan execution (fresh, then
\* any number of add_agent_result calls) len(agent_id_history) ==
\* len(agent_output) == current_step, and each add_agent_result grows both
\* histories by exactly one element together.
C6_HistoriesInStep == []C6_Lengths /\ [][C6_GrowTogether]_vars

C6_Witness ==
    /\ phase = "Running"
    /\ plan_ctx.current_step = 2
    /\ Len(plan_ctx.agent_id_history) = 2
    /\ Len(plan_ctx.agent_output) = 2

\* C10: execute_plan returns a well-formed AgentContext and lets no fault
\* escape, for every plan the Planner can return and every runner outcome.
C10_NoFaultEscapes ==
    /\ phase # "Raised"
    /\ phase = "Completed" => C6_Lengths

-----------------------------------------------------------------------------
(* Claims about the Resolver, checked under SpecResolver *)

\* the requested calls of the response handed to the Resolver
RsRequested ==
    IF rs_in.response.choices = <<>> THEN <<>>
    ELSE rs_in.response.choices[1].tool_calls

\* the i-th requested call fails: its payload does not decode, its tool is
\* not registered, or the tool function raises when it is called
RsCallFails(i) ==
    LET c == RsRequested[i] IN
    \/ ArgsDecode(c.arguments) = "JSONDecodeError"
    \/ c.name \notin rs_in.available_tools
    \/ ArgsDecode(c.arguments) # "dict"
    \/ rs_in.outcomes[i] # "returns"

IsErrorText(content) ==
    /\ content # <<>>
    /\ content[1] \in {"error:", "error: unknown tool"}

\* C11: the Resolver never raises, and every requested call that fails
\* (undecodable payload, unregistered tool, fault inside the tool) yields a
\* follow-up tool message whose content is an error string.
C11_ResolverNeverRaises ==
    /\ rs_ret.pc # "raised"
    /\ rs_ret.pc = "returned" =>
         \A i \in 1..Len(RsRequested) :
            RsCallFails(i) =>
               /\ i + 1 <= Len(rs_ret.additional_messages)
               /\ rs_ret.additional_messages[i + 1].role = "tool"
               /\ IsErrorText(rs_ret.additional_messages[i + 1].content)

\* C12: for a response with n >= 1 requested calls the follow-up list is one
\* assistant message listing the n calls with their ids, followed by exactly
\* one tool message per call, in request order, each tagged with the id of
\* its call, whether the call succeeded or failed.
C12_FollowUpLinkage ==
    (rs_ret.pc # "ready" /\ Len(RsRequested) >= 1) =>
        LET n == Len(RsRequested)
            msgs == rs_ret.additional_messages IN
        /\ rs_ret.pc = "returned"
        /\ Len(msgs) = n + 1
        /\ msgs[1].role = "assistant"
        /\ Len(msgs[1].tool_calls) = n
        /\ \A i \in 1..n :
              /\ msgs[1].tool_calls[i].id = RsRequested[i].id
              /\ msgs[1].tool_calls[i].function.name = RsRequested[i].name
              /\ msgs[1].tool_calls[i].function.arguments = RsRequested[i].arguments
              /\ msgs[i + 1].role = "tool"
              /\ msgs[i + 1].tool_call_id = RsRequested[i].id
              /\ msgs[i + 1].content # <<>>

\* two calls, ids in the order 2, 1: the first fails, the second succeeds
C12_Witness ==
    /\ rs_ret.pc = "returned"
    /\ Len(RsRequested) = 2
    /\ RsRequested[1].id = 2
    /\ RsRequested[2].id = 1
    /\ RsCallFails(1)
    /\ ~RsCallFails(2)
    /\ Len(rs_ret.additional_messages) = 3
    /\ rs_ret.additional_messages[2].tool_call_id = 2
    /\ rs_ret.additional_messages[3].tool_call_id = 1
    /\ rs_ret.executed = <<RsRequested[2].name>>

\* C13: for a response whose message requests no tool call the Resolver
\* returns the text of the message as it is (the empty text when the message
\* has none) with an empty follow-up list, and calls no tool function.
C13_NoCallsPassThrough ==
    (/\ rs_ret.pc # "ready"
     /\ rs_in.response.choices # <<>>
     /\ rs_in.response.choices[1].tool_calls = <<>>) =>
        /\ rs_ret.pc = "returned"
        /\ rs_ret.content = (IF rs_in.response.choices[1].content = NoneVal
                             THEN <<>> ELSE rs_in.response.choices[1].content)
        /\ rs_ret.additional_messages = <<>>
        /\ rs_ret.executed = <<>>

C13_Witness ==
    /\ rs_ret.pc = "returned"
    /\ rs_in.response.choices # <<>>
    /\ rs_in.response.choices[1].tool_calls = <<>>
    /\ rs_in.response.choices[1].content = <<"a", "1">>
    /\ rs_ret.content = <<"a", "1">>
    /\ rs_ret.additional_messages = <<>>

-----------------------------------------------------------------------------
(* Claims about the two Gateway calls of a turn, checked under SpecAgent *)

\* C14: when every attempt of the first Gateway call of a turn fails, the
\* turn returns an AgentOutput with final_output true and the apology text,
\* after that one Gateway call: no tool is called and no second Gateway call
\* is made.
C14_UnavailableStopsTurn ==
    (/\ ag_ret.pc # "ready"
     /\ Len(ag_ret.log.calls) >= 1
     /\ ag_env.fail1 = Exhausted) =>
        /\ ag_ret.pc = "returned"
        /\ ag_ret.result.final_output = TRUE
        /\ ag_ret.result.output = ApologyUnavailable
        /\ Len(ag_ret.log.calls) = 1
        /\ ~ag_ret.log.calls[1].ok
        /\ ag_ret.log.executed = <<>>

C14_Witness ==
    /\ ag_ret.pc = "returned"
    /\ ag_name = "kiki"
    /\ ag_env.fail1 = Exhausted
    /\ Len(ag_ret.log.calls) = 1
    /\ ag_ret.log.calls[1].attempts = DefaultMaxRetries + 1
    /\ ag_ret.log.calls[1].tools # <<>>
    /\ ag_ret.result = AgentOutput(TRUE, <<"kiki", "failed">>, ApologyUnavailable)
    /\ agent_ctx.total_step = IntVal(2)
    /\ agent_ctx.current_step = 0

\* what the Resolver makes of the first response of the turn
TurnResolved == execute_tools_if_needed(ag_env.response1, TOOL_FUNCTIONS, ag_env.outcomes)

\* the turn ran to its return statement without raising a fault on the way
TurnCompleted ==
    /\ ag_ret.pc = "returned"
    /\ ag_ret.result.progress_description = <<ag_name, "finished its work">>

\* C15: in a turn a second Gateway call is issued exactly when the Resolver
\* produced follow-up messages; its conversation is the messages of the first
\* call followed by the follow-up messages in order; and when the second
\* call is Unavailable the output is the text of the first response, or the
\* generic message when that text is empty.
C15_SecondCall ==
    ag_ret.pc # "ready" =>
        LET calls == ag_ret.log.calls IN
        /\ Len(calls) <= 2
        /\ Len(calls) = 2 =>
              /\ calls[1].ok
              /\ ~TurnResolved.fault
              /\ TurnResolved.additional_messages # <<>>
              /\ calls[2].messages = calls[1].messages \o TurnResolved.additional_messages
        /\ TurnCompleted =>
              /\ Len(calls) >= 1
              /\ (Len(calls) = 2) <=> (TurnResolved.additional_messages # <<>>)
        /\ (TurnCompleted /\ Len(calls) = 2 /\ ~calls[2].ok) =>
              ag_ret.result.output =
                 (IF Truthy(ag_env.response1.choices[1].content)
                  THEN ag_env.response1.choices[1].content
                  ELSE ToolsDoneNoAnswer)

\* a tool call resolved, the second call Unavailable, no text in the first
\* response: the generic message
C15_Witness ==
    /\ TurnCompleted
    /\ Len(ag_ret.log.calls) = 2
    /\ ~ag_ret.log.calls[2].ok
    /\ Len(ag_ret.log.calls[2].messages) = 4
    /\ ag_ret.log.calls[2].messages[3].role = "assistant"
    /\ ag_ret.log.calls[2].messages[4].role = "tool"
    /\ ag_env.response1.choices[1].content = NoneVal
    /\ ag_ret.result.output = ToolsDoneNoAnswer

-----------------------------------------------------------------------------
(* Claims about the order of the steps, checked under Spec *)

\* the agent names of the first n steps of the plan, in declared order
PlanNames(n) == [i \in 1..n |-> plan.plans.steps[i].agent_name]

\* C16: the steps of a plan run in declared order, one after the other: the
\* k-th runner invocation is for step k-1, it is made only after the results
\* of all earlier steps were appended, the context it observes holds exactly
\* the outputs of steps 0..k-2 in order with current_step = k-1, and on
\* completion agent_id_history is the plan's sequence of agent names.
C16_StepsInOrder ==
    /\ Len(runs) <= Len(plan_ctx.agent_output) + 1
    /\ phase \in {"Running", "Completed"} => Len(runs) = Len(plan_ctx.agent_output)
    /\ \A k \in 1..Len(runs) :
          /\ runs[k].step = k - 1
          /\ runs[k].runner = RunnerFor(plan.plans.steps[k].agent_name)
          /\ runs[k].seen.current_step = k - 1
          /\ Len(runs[k].seen.agent_output) = k - 1
          /\ runs[k].seen.agent_id_history = PlanNames(k - 1)
          /\ \A j \in 1..(k - 1) :
                /\ j <= Len(plan_ctx.agent_output)
                /\ runs[k].seen.agent_output[j] = plan_ctx.agent_output[j]
    /\ phase = "Completed" =>
          /\ Len(runs) = Len(plan.plans.steps)
          /\ plan_ctx.agent_id_history = PlanNames(Len(plan.plans.steps))

\* a completed plan of two steps naming two different agents
C16_Witness ==
    /\ phase = "Completed"
    /\ Len(plan.plans.steps) = 2
    /\ plan.plans.steps[1].agent_name = "kiki"
    /\ plan.plans.steps[2].agent_name = "other"
    /\ Len(runs) = 2
    /\ runs[2].seen.agent_id_history = <<"kiki">>
    /\ runs[2].seen.agent_output = <<plan_ctx.agent_output[1]>>
    /\ plan_ctx.agent_id_history = <<"kiki", "other">>

\* the states of a plan execution in their order
PhaseRank(p) ==
    CASE p = "Planning" -> 0
      [] p = "Planned" -> 1
      [] p = "Running" -> 2
      [] OTHER -> 3

\* Running(i) is a state of the loop about to run step i
C17_RunningInRange ==
    /\ (phase = "Running" /\ step_idx < Len(plan.plans.steps)) =>
          /\ plan_ctx.total_step.isint
          /\ step_idx < plan_ctx.total_step.n
    /\ phase = "Completed" => plan_ctx.total_step = IntVal(plan_ctx.current_step)
    /\ phase # "Raised"

C17_Forward ==
    /\ PhaseRank(phase') >= PhaseRank(phase)
    /\ phase \in {"Running", "Completed"} =>
          /\ plan_ctx'.total_step = plan_ctx.total_step
          /\ plan_ctx'.current_step >= plan_ctx.current_step
          /\ plan_ctx'.current_step - plan_ctx.current_step
                = Len(plan_ctx'.agent_output) - Len(plan_ctx.agent_output)
          /\ plan_ctx'.current_step - plan_ctx.current_step \in {0, 1}

\* C17: a plan execution goes Planning, Running(0), ..., Running(total_steps-1),
\* Completed: the loop runs step i only for i < total_steps, it moves on by
\* one step per appended result, the last Running state is followed by
\* Completed with current_step = total_steps, and no transition goes back.
C17_StateMachine == []C17_RunningInRange /\ [][C17_Forward]_vars

-----------------------------------------------------------------------------
(* Claims about the session state, checked under SpecSessions *)

\* C18: serialization round trip: for the UserContexts and the AgentContexts
\* of a session, in every state the public operations lead to,
\* from_json(to_json(ctx)) equals ctx field for field, with chat_history,
\* agent_id_history and agent_output in the same order and every recorded
\* output an AgentOutput again.
C18_RoundTrip ==
    probe.op = "round_trip" =>
        /\ probe.user = View(probe.sid).user
        /\ probe.agent = View(probe.sid).agent

\* a round trip of a session with a user turn (progress None) after the
\* welcome turn and one recorded AgentOutput
C18_Witness ==
    /\ probe.op = "round_trip"
    /\ probe.sid = 1
    /\ Len(probe.user.chat_history) = 2
    /\ probe.user.chat_history[2].progress = NoneVal
    /\ probe.user.user_info = <<<<"name", "kim">>>>
    /\ probe.agent.agent_id_history = <<"kiki">>
    /\ probe.agent.agent_output =
          <<AgentOutput(TRUE, <<"kiki", "finished its work">>, <<"a", "1">>)>>
    /\ probe.agent.current_step = 1

\* a round trip of session 2 after two turns: the Gateway was Unavailable
\* during the first, and the second faulted on the name that is not a string
C18_WitnessApologies ==
    /\ probe.op = "round_trip"
    /\ probe.sid = 2
    /\ probe.agent.agent_id_history = <<NumberName, NumberName>>
    /\ probe.agent.agent_output =
          <<AgentOutput(TRUE, <<"bibi", "failed">>, ApologyUnavailable),
            AgentOutput(TRUE, <<"bibi", "failed with an error">>, ApologyFault("bibi"))>>

C19_SameResult ==
    (/\ Len(prompts) = 2
     /\ prompts[1].user = prompts[2].user
     /\ prompts[1].agent = prompts[2].agent
     /\ prompts[1].base_prompt = prompts[2].base_prompt) =>
        prompts[1].result = prompts[2].result

C19_NoWrite ==
    probe'.op = "create_context_prompt" =>
        /\ heap' = heap
        /\ sess' = sess
        /\ \A sid \in {1, 2} : View(sid)' = View(sid)

C19_WitnessTruncated ==
    /\ prompts # <<>>
    /\ ~prompts[1].result.fault
    /\ Len(prompts[1].user.chat_history[1].content) > ChatBudget
    /\ \E i \in 1..Len(prompts[1].result.text) - ChatBudget :
          /\ prompts[1].result.text[i] = "welcome"
          /\ prompts[1].result.text[i + ChatBudget] = "..."

\* C20: the sessions are independent: an operation of one session
\* (add_user_message, add_assistant_message, the start of a plan execution,
\* add_agent_result, serialization, prompt assembly) leaves the profile, chat
\* history, agent_id_history, agent_output and step counters of the other
\* session as they were.
C20_SessionsIndependent ==
    [][\A sid \in {1, 2} : sid # probe'.sid => View(sid)' = View(sid)]_vars

\* both sessions have changed their chat history and their agent results
C20_Witness ==
    /\ sess[1].ops = 2
    /\ sess[2].ops = 2
    /\ Len(View(1).user.chat_history) = 2
    /\ Len(View(2).user.chat_history) = 2
    /\ View(1).agent.agent_id_history = <<"kiki">>
    /\ View(2).agent.agent_id_history = <<NumberName>>
    /\ View(1).user.chat_history[2].timestamp > View(2).user.chat_history[2].timestamp

-----------------------------------------------------------------------------
(* Claims about the chat history of a session, checked under SpecSidebar *)

IsPrefix(s, t) == Len(s) <= Len(t) /\ SubSeq(t, 1, Len(s)) = s

\* an add_* call appends exactly one turn, with the stated role
C21_AddOne ==
    \A sid \in {1, 2} :
        LET old == View(sid).user.chat_history
            new == View(sid)'.user.chat_history
        IN /\ (probe'.sid = sid /\ probe'.op = "add_user_message") =>
                  /\ Len(new) = Len(old) + 1
                  /\ new[Len(new)].role = "user"
           /\ (probe'.sid = sid /\ probe'.op = "add_assistant_message") =>
                  /\ Len(new) = Len(old) + 1
                  /\ new[Len(new)].role = "assistant"

\* every operation keeps the recorded turns as a prefix of the new history
C21_PrefixKept ==
    \A sid \in {1, 2} :
        IsPrefix(View(sid).user.chat_history, View(sid)'.user.chat_history)

\* C21: the chat history of a session is append-only: every operation of the
\* program (add_user_message, add_assistant_message, the sidebar actions)
\* leaves the recorded turns unchanged as a prefix of the new history, and
\* each add_* call appends exactly one turn with the stated role.
C21_AppendOnly == [][C21_AddOne /\ C21_PrefixKept]_vars

C21_AddOnly == [][C21_AddOne]_vars

-----------------------------------------------------------------------------
(* Claims about the termination of the Plan Executor, checked under SpecLive *)

\* one runner invocation for each step of the plan, in the order of the steps
RunsCoverPlan ==
    /\ Len(runs) = Len(plan.plans.steps)
    /\ \A k \in 1..Len(runs) : runs[k].step = k - 1

AllStepsShaped == \A i \in 1..Len(plan.plans.steps) : plan.plans.steps[i].shape = "ok"

\* C22: no mid-plan abort: once execute_plan has started, it terminates
\* after invoking a runner exactly once for each of the plan's steps, also
\* when an intermediate step returned a terminal apology.
C22_NoMidPlanAbort == (phase = "Running") ~> (phase = "Completed" /\ RunsCoverPlan)

\* the same for the plans whose steps all have the agent_name and
\* description keys
C22_ShapedPlansComplete ==
    (phase = "Running" /\ AllStepsShaped) ~> (phase = "Completed" /\ RunsCoverPlan)

-----------------------------------------------------------------------------
(* Claims about the is_final flag, checked under Spec *)

\* the output recorded for step k-1 was packaged on the normal path of the
\* runner (not one of the apologies)
NormalPath(k) ==
    plan_ctx.agent_output[k].progress_description =
        <<runs[k].runner, "finished its work">>

\* C23: on the normal path execute_agent sets is_final to
\* (current_step + 1) >= total_step, evaluated on the AgentContext as it is
\* before the result is appended; so within execute_plan the step with index
\* i gets is_final = TRUE iff i + 1 >= plan.total_steps.
C23_IsFinalBeforeAppend ==
    \A k \in 1..Len(plan_ctx.agent_output) :
        NormalPath(k) =>
            /\ runs[k].seen.total_step.isint
            /\ plan_ctx.agent_output[k].final_output =
                  (runs[k].seen.current_step + 1 >= runs[k].seen.total_step.n)
            /\ plan.total_steps.isint
            /\ plan_ctx.agent_output[k].final_output = (k >= plan.total_steps.n)

\* a plan of two steps with total_steps = 2, both on the normal path: the
\* first output is not final, the second is
C23_Witness ==
    /\ phase = "Completed"
    /\ plan.total_steps = IntVal(2)
    /\ Len(plan_ctx.agent_output) = 2
    /\ NormalPath(1) /\ NormalPath(2)
    /\ ~plan_ctx.agent_output[1].final_output
    /\ plan_ctx.agent_output[2].final_output

-----------------------------------------------------------------------------
(* Claims about the failure kinds and the delays of the Gateway, checked   *)
(* under SpecGateway                                                       *)

\* the script with the kind of every failure erased
KindErased(script) ==
    [i \in DOMAIN script |-> IF script[i] = "ok" THEN "ok" ELSE "Exception"]

\* what the caller observes of a call: the value returned, the attempts made
Observable(g) == [pc |-> g.pc, result |-> g.result, calls |-> g.calls, sleeps |-> g.sleeps]

\* C24: the Gateway treats all failure kinds alike: the number of attempts
\* and the returned value depend only on which attempts failed, never on the
\* kind of a failure (connection failure, rate-limit rejection, generic remote
\* error, any other exception); no kind shortcuts to immediate failure and
\* none escapes as a raised fault.
C24_KindsUniform ==
    /\ gw.result.kind # "raised"
    /\ gw.pc = "returned" =>
          /\ Observable(gw) =
                Observable(safe_llm_call_with_retry(KindErased(gw_script), gw_max_retries))
          /\ gw.calls = Min(LeadingFailures(gw_script, 1), gw_max_retries) + 1

\* a call that met a rate-limit rejection, a connection failure and another
\* exception, one after the other, and then succeeded on the fourth attempt
C24_Witness ==
    /\ gw.pc = "returned"
    /\ gw_max_retries = 3
    /\ SubSeq(gw_script, 1, 4) = <<"RateLimitError", "APIConnectionError", "Exception", "ok">>
    /\ gw.result = ResponseOf(4)
    /\ gw.calls = 4

\* C25: one delay between consecutive attempts only: a call in which f
\* attempts failed before the final attempt has made exactly f delays, with
\* none before the first attempt, none after a successful attempt and none
\* after the last failed attempt that yields Unavailable; with the default
\* max_retries = 2 there are at most 3 attempts and 2 delays.
C25_DelaysBetweenAttempts ==
    /\ gw.calls = 0 => gw.sleeps = 0
    /\ gw.pc = "loop" => gw.sleeps = gw.calls
    /\ (gw.pc = "returned" /\ gw.calls > 0) => gw.sleeps = gw.calls - 1
    /\ gw_max_retries = DefaultMaxRetries => (gw.calls <= 3 /\ gw.sleeps <= 2)

\* the default max_retries, every attempt failed: 3 attempts, 2 delays,
\* Unavailable
C25_Witness ==
    /\ gw.pc = "returned"
    /\ gw_max_retries = DefaultMaxRetries
    /\ gw.result = Unavailable
    /\ gw.calls = 3
    /\ gw.sleeps = 2

-----------------------------------------------------------------------------
(* Claims about the keyword fallback of the Planner, checked under         *)
(* SpecPlanner                                                             *)

\* the Gateway handed over a response with a text, and json.loads raised
\* JSONDecodeError on it (after the fences were stripped)
DecodeFailed ==
    /\ pl_ret.pc # "ready"
    /\ pl_env.fault = "none"
    /\ pl_env.fails \in Succeeding
    /\ pl_env.choices = 1
    /\ ~pl_env.content_is_none
    /\ ~JsonLoads(StripFences(pl_env.content.toks), pl_env.content.doc).ok

\* priorities of the keywords that occur in the raw response text
KeywordsFound == {i \in 1..Len(Keywords) : InContent(Keywords[i], pl_env.content)}

\* C26: on plan decode failure the Planner returns a single-step plan
\* (total_steps = 1) naming the first known agent keyword found in the raw
\* response text, and names the fallback identity bibi exactly when none of
\* the keywords kiki, ager, ramu, coli occurs in the text.
C26_KeywordFallback ==
    DecodeFailed =>
        /\ pl_ret.pc = "returned"
        /\ pl_ret.plan.total_steps = IntVal(1)
        /\ pl_ret.plan.plans.iterable
        /\ Len(pl_ret.plan.plans.steps) = 1
        /\ pl_ret.plan.plans.steps[1].shape = "ok"
        /\ (pl_ret.plan.plans.steps[1].agent_name = "bibi") <=> (KeywordsFound = {})
        /\ KeywordsFound # {} =>
              \E i \in KeywordsFound :
                 /\ pl_ret.plan.plans.steps[1].agent_name = Keywords[i]
                 /\ \A j \in KeywordsFound : i <= j

\* an undecodable text with one keyword, behind an unclosed fence
C26_Witness ==
    /\ DecodeFailed
    /\ pl_env.content.toks = <<Fence, "x", "ramu">>
    /\ pl_ret.plan.plans.steps[1].agent_name = "ramu"
    /\ pl_ret.plan.total_steps = IntVal(1)

\* positions of the text at which a keyword stands as a word
PositionsOf(keyword) ==
    {n \in 1..Len(pl_env.content.toks) : pl_env.content.toks[n] = keyword}

\* C27: when the undecodable response contains several keywords, the agent
\* of the synthesized plan is chosen by the fixed priority kiki, ager, ramu,
\* coli, wherever the keywords stand in the text: a keyword of lower
\* priority is never chosen over one of higher priority, also when it
\* stands earlier.
C27_FixedPriority ==
    DecodeFailed =>
        \A i, j \in 1..Len(Keywords) :
            (i < j /\ PositionsOf(Keywords[i]) # {} /\ PositionsOf(Keywords[j]) # {}) =>
                pl_ret.plan.plans.steps[1].agent_name \notin
                    {Keywords[k] : k \in j..Len(Keywords)}

\* coli stands before ager, which stands before kiki: the plan names kiki
C27_Witness ==
    /\ DecodeFailed
    /\ pl_env.content.toks = <<"coli", "ager", "kiki">>
    /\ pl_ret.plan.plans.steps[1].agent_name = "kiki"

-----------------------------------------------------------------------------
(* Claims about the start of a plan execution, checked under SpecSessions *)

C28_Fresh ==
    \A sid \in {1, 2} :
        (probe'.sid = sid /\ probe'.op = "plan_start") =>
            /\ View(sid)'.agent =
                  AgentContexts(<<>>, SessionPlan(sid).total_steps, 0, <<>>)
            /\ sess'[sid].agent_id_history \notin 1..Len(heap)
            /\ sess'[sid].agent_output \notin 1..Len(heap)
            /\ sess'[sid].agent_id_history # sess'[sid].agent_output
            /\ \A a \in 1..Len(heap) : heap'[a] = heap[a]

\* C28: every plan execution starts from a fresh AgentContexts with
\* total_step = plan.total_steps, current_step = 0 and empty agent_id_history
\* and agent_output, held in list objects of its own: nothing recorded
\* earlier in the same session is visible to it.
C28_FreshContext == [][C28_Fresh]_vars

\* session 1 had a result recorded (still in the list object at address 2)
\* and then started a plan execution, which sees none of it
C28_Witness ==
    /\ probe.op = "plan_start"
    /\ probe.sid = 1
    /\ heap[2] = <<"kiki">>
    /\ sess[1].agent_id_history # 2
    /\ View(1).agent = AgentContexts(<<>>, IntVal(2), 0, <<>>)

-----------------------------------------------------------------------------
(* Claims about unrecognized agent names, checked under Spec *)

Recognized == {"bibi", "kiki", "ager", "ramu", "coli"}

\* the steps of the plan that name an identity that is not a recognized agent
UnknownSteps ==
    {k \in 1..Len(plan.plans.steps) :
        /\ plan.plans.steps[k].shape = "ok"
        /\ plan.plans.steps[k].agent_name \notin Recognized}

\* C29: for a plan step naming an identity that is not a recognized agent,
\* the Plan Executor invokes the runner of the default identity bibi exactly
\* once for that step and appends its result, continuing with the remaining
\* steps; the identity recorded in agent_id_history for that step is the
\* name given in the plan step.
C29_DefaultRunner ==
    /\ \A k \in UnknownSteps :
          /\ \A n \in 1..Len(runs) :
                (runs[n].step = k - 1) <=> (n = k)
          /\ k <= Len(runs) => runs[k].runner = "bibi"
          /\ (k <= Len(runs) /\ phase \in {"Running", "Completed"}) =>
                /\ Len(plan_ctx.agent_output) >= k
                /\ plan_ctx.agent_output[k].progress_description[1] = "bibi"
                /\ plan_ctx.agent_id_history[k] = plan.plans.steps[k].agent_name
          /\ phase = "Completed" => k <= Len(runs)
    /\ phase = "Raised" =>
          \/ ~plan.plans.iterable
          \/ /\ step_idx < Len(plan.plans.steps)
             /\ plan.plans.steps[step_idx + 1].shape # "ok"
             /\ Len(runs) = step_idx
    /\ phase = "Completed" => Len(runs) = Len(plan.plans.steps)

\* a plan whose first step names an unknown identity and whose second step
\* names kiki: bibi's runner ran for the first, kiki's for the second
C29_Witness ==
    /\ phase = "Completed"
    /\ Len(plan.plans.steps) = 2
    /\ plan.plans.steps[1].agent_name = "other"
    /\ plan.plans.steps[2].agent_name = "kiki"
    /\ runs[1].runner = "bibi"
    /\ runs[2].runner = "kiki"
    /\ plan_ctx.agent_id_history = <<"other", "kiki">>
    /\ plan_ctx.agent_output[1].progress_description[1] = "bibi"

-----------------------------------------------------------------------------
(* Claims about several tool calls of one turn, checked under SpecResolver *)

\* the Resolver applied to a response that requests the i-th call alone
ResolvedAlone(i) ==
    execute_tools_if_needed(
        Answer(rs_in.response.choices[1].content, <<RsRequested[i]>>),
        rs_in.available_tools, <<rs_in.outcomes[i]>>)

\* the tool functions run by the calls i..n, each resolved alone
RECURSIVE ExecutedAlone(_)
ExecutedAlone(i) ==
    IF i > Len(RsRequested) THEN <<>>
    ELSE ResolvedAlone(i).executed \o ExecutedAlone(i + 1)

\* C30: the tool calls requested in one model turn are resolved one at a
\* time in request order and are fault-isolated: a decode failure, unknown
\* tool or execution fault in one call neither prevents a later call from
\* being executed nor changes the follow-up content recorded for another
\* call.
C30_FaultIsolated ==
    (rs_ret.pc = "returned" /\ Len(RsRequested) >= 1) =>
        /\ Len(rs_ret.additional_messages) = Len(RsRequested) + 1
        /\ \A i \in 1..Len(RsRequested) :
              /\ rs_ret.additional_messages[i + 1].content =
                    ResolvedAlone(i).additional_messages[2].content
              /\ rs_ret.additional_messages[i + 1].tool_call_id = RsRequested[i].id
        /\ rs_ret.executed = ExecutedAlone(1)

\* the first call's tool raises, the second call's tool runs and returns
C30_Witness ==
    /\ rs_ret.pc = "returned"
    /\ Len(RsRequested) = 2
    /\ rs_in.outcomes = <<"raises", "returns">>
    /\ RsCallFails(1)
    /\ ~RsCallFails(2)
    /\ rs_ret.executed = <<"get_latest_news", "get_latest_news">>
    /\ IsErrorText(rs_ret.additional_messages[2].content)
    /\ rs_ret.additional_messages[3].content = <<"result of", "get_latest_news">>

\* the tool of the first call runs and raises json.JSONDecodeError: the
\* follow-up carries the text of the first except clause
C30_WitnessToolRaisesDecodeError ==
    /\ rs_ret.pc = "returned"
    /\ Len(RsRequested) >= 1
    /\ rs_in.outcomes[1] = "raises JSONDecodeError"
    /\ ArgsDecode(RsRequested[1].arguments) = "dict"
    /\ rs_ret.executed # <<>>
    /\ rs_ret.additional_messages[2].content =
          <<"error:", RsRequested[1].name, "argument parsing failed">>

-----------------------------------------------------------------------------
(* Specification of the context handed to the model: one agent turn and    *)
(* one planner call on the same contexts, for chat histories longer than   *)
(* the assembler's window and for every pattern of authors                 *)

\* longest chat history drawn
MaxChats == 6

\* the content of the i-th turn of a drawn history
TurnMarks == <<"t1", "t2", "t3", "t4", "t5", "t6", "t7", "t8">>

HistoryOf(roles) ==
    [i \in 1..Len(roles) |-> ChatMessage(roles[i], <<TurnMarks[i]>>, i, NoneVal)]

ProfileSamples ==
    {<<>>, << <<"name", "kim">>, <<"age", "30">> >>, << <<"age", "30">>, <<"name", "kim">> >>}

ContextUsers(maxchats) ==
    {UserContexts(info, HistoryOf(roles)) :
        info \in ProfileSamples,
        roles \in UNION {[1..n -> {"user", "assistant"}] : n \in 0..maxchats}}

\* an answer of the model longer than the budget of a recorded output
LongAnswer == [i \in 1..(OutputBudget + 1) |-> IF i = 1 THEN "long" ELSE "_"]

\* the turns of the earlier steps: also one whose answer is long
ContextPriorEnvs ==
    PriorEnvs \cup {Env("file", "none", 0, Answer(LongAnswer, <<>>), <<>>, 0, NoChoices)}

CxInit ==
    /\ AuxIdle
    /\ GwIdle
    /\ ExecutorIdle
    /\ \/ /\ user_ctx \in ContextUsers(MaxChats)
          /\ agent_ctx \in StepCtxs(user_ctx, MaxPlanLen, {PriorAnswered})
       \/ /\ user_ctx \in ContextUsers(1)
          /\ agent_ctx \in StepCtxs(user_ctx, MaxPlanLen, ContextPriorEnvs)
    /\ ag_name = "kiki"
    /\ ag_env \in {Env(t, "none", 0, Answer(<<"a", "1">>, <<>>), <<>>, 0, NoChoices) :
                      t \in TemplateStates}
    /\ ag_ret = AgPending
    /\ pl_env = AnsweringEnv(Content(<<"kiki">>, JsonOther))
    /\ pl_ret = PlPending

CxNext == AgTurn \/ PlCall

SpecContext == CxInit /\ [][CxNext]_vars

-----------------------------------------------------------------------------
(* C31 *)

\* the indices at which a token occurs in a text, and the j-th of them
Occurrences(text, tok) == {i \in 1..Len(text) : text[i] = tok}

NthOccurrence(text, tok, j) ==
    CHOOSE p \in Occurrences(text, tok) :
        Cardinality({x \in Occurrences(text, tok) : x < p}) = j - 1

SectionMarks ==
    {"=== context ===", "[user info]", "[recent chats]", "[previous agent results]",
     "[progress]", "done:"}

Landmarks ==
    SectionMarks \cup {"name", "age", "result:"} \cup {TurnMarks[i] : i \in 1..Len(TurnMarks)}

DecimalDigit(n) == (<<"0", "1", "2", "3", "4", "5", "6", "7", "8", "9">>)[n + 1]

\* the landmarks a prompt for these contexts shows, in the order it shows them
ExpectedLandmarks(u, ctx) ==
    LET n == Len(u.chat_history)
        shown == IF n > 5 THEN 5 ELSE n
    IN  <<"=== context ===">>
        \o (IF Len(u.user_info) > 0 THEN <<"[user info]">> ELSE <<>>)
        \o [i \in 1..Len(u.user_info) |-> u.user_info[i][1]]
        \o (IF n > 0 THEN <<"[recent chats]">> ELSE <<>>)
        \o [i \in 1..shown |-> u.chat_history[n - shown + i].content[1]]
        \o (IF Len(ctx.agent_output) > 0 THEN <<"[previous agent results]">> ELSE <<>>)
        \o [i \in 1..Len(ctx.agent_output) |-> "result:"]
        \o <<"[progress]", "done:">>

Composed(text, base_prompt, u, ctx) ==
    LET IsLandmark(tok) == tok \in Landmarks
        IsName(tok) == tok \notin {",", "\n"}
        n == Len(u.chat_history)
        q == NthOccurrence(text, "[progress]", 1)
        d == NthOccurrence(text, "done:", 1)
        eol == CHOOSE p \in Occurrences(text, "\n") :
                   p > d /\ \A x \in Occurrences(text, "\n") : x > d => p <= x
    IN
    /\ IsPrefix(base_prompt, text)
    /\ SelectSeq(SubSeq(text, Len(base_prompt) + 1, Len(text)), IsLandmark)
           = ExpectedLandmarks(u, ctx)
    /\ \A i \in 1..(n - 5) : Occurrences(text, u.chat_history[i].content[1]) = {}
    /\ \A i \in 1..Len(ctx.agent_output) :
          LET p == NthOccurrence(text, "result:", i)
              o == ctx.agent_output[i]
              shown == Min(Len(o.output), OutputBudget)
          IN  /\ text[p - Len(o.progress_description) - 3] = ctx.agent_id_history[i]
              /\ SubSeq(text, p - Len(o.progress_description) - 1, p - 2)
                    = o.progress_description
              /\ SubSeq(text, p + 1, p + shown) = SubSeq(o.output, 1, shown)
    /\ text[q + 1] = "step"
    /\ text[q + 2] = DecimalDigit(ctx.current_step + 1)
    /\ text[q + 3] = "/"
    /\ ctx.total_step.isint => text[q + 4] = DecimalDigit(ctx.total_step.n)
    /\ SelectSeq(SubSeq(text, d + 1, eol - 1), IsName)
           = IF ctx.agent_id_history = <<>> THEN <<"none">> ELSE ctx.agent_id_history

\* C31: the system message of the first Gateway call of an agent turn, and of
\* the planner's call, is the base template followed by the profile entries
\* in the mapping's order, the last 5 chat turns at most in chronological
\* order, one entry per recorded output paired with the identity of the same
\* index, the progress line current_step+1 over total_step and the
\* identities already invoked; a turn older than the last 5 does not appear
C31_PromptComposition ==
    /\ ag_ret.log.calls # <<>> =>
          Composed(ag_ret.log.calls[1].messages[1].content,
                   load_prompt(ag_name, ag_env.template), user_ctx, agent_ctx)
    /\ pl_ret.calls # <<>> =>
          Composed(pl_ret.calls[1].messages[1].content,
                   load_prompt("manager", "file"), user_ctx, agent_ctx)

C31_Witness ==
    /\ ag_ret.pc = "returned"
    /\ ag_ret.log.calls # <<>>
    /\ Len(user_ctx.chat_history) > 5
    /\ Len(user_ctx.user_info) = 2
    /\ Len(agent_ctx.agent_output) > 0
    /\ Occurrences(ag_ret.log.calls[1].messages[1].content, "t2") # {}
    /\ Occurrences(ag_ret.log.calls[1].messages[1].content, "t1") = {}

\* the earlier step named an identity that is none of the agents: its entry
\* pairs that identity with the record of the default runner, whose long
\* answer is shown up to the budget of an output
C31_WitnessSubstituted ==
    /\ ag_ret.pc = "returned"
    /\ ag_ret.log.calls # <<>>
    /\ agent_ctx.agent_id_history = <<"other">>
    /\ agent_ctx.agent_output[1].progress_description = <<"bibi", "finished its work">>
    /\ agent_ctx.agent_output[1].output = LongAnswer
    /\ LET text == ag_ret.log.calls[1].messages[1].content
           p == NthOccurrence(text, "result:", 1)
       IN  /\ text[p + 1] = "long"
           /\ text[p + OutputBudget + 1] = "..."

-----------------------------------------------------------------------------
(* C32 *)

UserTurns(chat_history) == {i \in 1..Len(chat_history) : chat_history[i].role = "user"}

\* the content of the user turn no other user turn follows; "" without one
LatestUserText(chat_history) ==
    IF UserTurns(chat_history) = {} THEN <<>>
    ELSE chat_history[CHOOSE i \in UserTurns(chat_history) :
                          \A j \in UserTurns(chat_history) : j <= i].content

\* C32: the user message of the first Gateway call of an agent turn is the
\* content of the latest user turn of the chat history (assistant turns after
\* it are skipped), the empty text when no turn is a user's; the planner's
\* request embeds the same text
C32_TaskText ==
    /\ ag_ret.log.calls # <<>> =>
          /\ ag_ret.log.calls[1].messages[2].role = "user"
          /\ ag_ret.log.calls[1].messages[2].content
                 = LatestUserText(user_ctx.chat_history)
    /\ pl_ret.calls # <<>> =>
          LET request == pl_ret.calls[1].messages[2].content
              task == LatestUserText(user_ctx.chat_history)
          IN  /\ request[1] = "user request:"
              /\ SubSeq(request, 2, Len(request) - 1) = task

C32_Witness ==
    /\ ag_ret.log.calls # <<>>
    /\ pl_ret.calls # <<>>
    /\ Len(user_ctx.chat_history) >= 3
    /\ user_ctx.chat_history[Len(user_ctx.chat_history)].role = "assistant"
    /\ user_ctx.chat_history[Len(user_ctx.chat_history) - 1].role = "assistant"
    /\ user_ctx.chat_history[Len(user_ctx.chat_history) - 2].role = "user"
    /\ ag_ret.log.calls[1].messages[2].content
           = user_ctx.chat_history[Len(user_ctx.chat_history) - 2].content

\* the same for a history no user wrote into
C32_WitnessNoUserTurn ==
    /\ ag_ret.log.calls # <<>>
    /\ Len(user_ctx.chat_history) >= 2
    /\ UserTurns(user_ctx.chat_history) = {}
    /\ ag_ret.log.calls[1].messages[2].content = <<>>

-----------------------------------------------------------------------------
(* C33 *)

\* C33: a planner call and an agent turn leave the UserContext and the
\* AgentContext they are given as they were; during a plan execution
\* total_step never changes, and agent_id_history, agent_output and
\* current_step change only by the append of one result after a runner
\* invocation that was handed the context as the preceding append left it
C33_ContextFrame ==
    [][/\ user_ctx' = user_ctx
       /\ agent_ctx' = agent_ctx
       /\ phase = "Planning" => plan_ctx' = plan_ctx
       /\ phase = "Running" =>
             /\ plan_ctx'.total_step = plan.total_steps
             /\ runs' # runs =>
                   /\ Len(runs') = Len(runs) + 1
                   /\ runs'[Len(runs')].seen = plan_ctx
             /\ plan_ctx' # plan_ctx =>
                   /\ runs' # runs
                   /\ plan_ctx'.agent_id_history
                          = Append(plan_ctx.agent_id_history, StepAt(plan, step_idx).agent_name)
                   /\ Len(plan_ctx'.agent_output) = Len(plan_ctx.agent_output) + 1
                   /\ IsPrefix(plan_ctx.agent_output, plan_ctx'.agent_output)
                   /\ plan_ctx'.current_step = plan_ctx.current_step + 1
             /\ (runs' # runs /\ phase' = "Raised") => plan_ctx' = plan_ctx
      ]_vars

C33_Witness ==
    /\ phase = "Running"
    /\ Len(runs) = 2
    /\ Len(plan_ctx.agent_output) = 2
    /\ runs[2].seen.agent_output = SubSeq(plan_ctx.agent_output, 1, 1)
    /\ runs[2].seen.total_step = plan_ctx.total_step
    /\ plan_ctx.total_step # IntVal(2)
    /\ user_ctx \in SampleUsers

-----------------------------------------------------------------------------
(* C34 *)

RECURSIVE SumAttempts(_, _)
SumAttempts(calls, i) ==
    IF i > Len(calls) THEN 0 ELSE calls[i].attempts + SumAttempts(calls, i + 1)

\* tool names the first response of the turn asks for
RequestedFirst ==
    IF ag_env.response1.choices = <<>> THEN {}
    ELSE {ag_env.response1.choices[1].tool_calls[i].name :
             i \in 1..Len(ag_env.response1.choices[1].tool_calls)}

\* C34: an agent turn makes at most two Gateway calls, the second one without
\* a tool schema and only after the single round of tool execution; what the
\* second response asks for is neither resolved nor executed; with the
\* default retries the two calls make at most 6 transport attempts
C34_TwoCallsOneRound ==
    /\ Len(ag_ret.log.calls) <= 2
    /\ Len(ag_ret.log.calls) = 2 =>
          /\ ag_ret.log.calls[2].tools = <<>>
          /\ ag_env.response1.choices # <<>>
          /\ ag_env.response1.choices[1].tool_calls # <<>>
          /\ Len(ag_ret.log.calls[2].messages)
                 = 3 + Len(ag_env.response1.choices[1].tool_calls)
    /\ Len(ag_ret.log.executed) <= Cardinality(DOMAIN ag_env.outcomes)
    /\ \A i \in 1..Len(ag_ret.log.executed) : ag_ret.log.executed[i] \in RequestedFirst
    /\ SumAttempts(ag_ret.log.calls, 1) <= 6

C34_Witness ==
    /\ ag_ret.pc = "returned"
    /\ Len(ag_ret.log.calls) = 2
    /\ SumAttempts(ag_ret.log.calls, 1) = 6
    /\ ag_env.response2 = MoreCalls
    /\ ag_ret.log.executed = <<"get_latest_news">>
    /\ ag_ret.result.output = <<"a", "2">>

-----------------------------------------------------------------------------
(* C35 *)

\* the calls of the first response whose payload is a JSON text and whose
\* name is a key of TOOL_FUNCTIONS, the registry execute_agent hands over
EligibleCalls ==
    IF ag_env.response1.choices = <<>> THEN {}
    ELSE {i \in 1..Len(ag_env.response1.choices[1].tool_calls) :
             /\ ag_env.response1.choices[1].tool_calls[i].arguments \in {"{}", "[]"}
             /\ ag_env.response1.choices[1].tool_calls[i].name \in TOOL_FUNCTIONS}

\* C35: in an agent turn a tool function runs only for a call of the first
\* response whose payload decoded and whose name is registered; a call with
\* an undecodable payload or an unregistered name runs no tool function
C35_ToolRunsOnlyIfEligible ==
    /\ Len(ag_ret.log.executed) <= Cardinality(EligibleCalls)
    /\ \A k \in 1..Len(ag_ret.log.executed) :
          \E i \in EligibleCalls :
              ag_env.response1.choices[1].tool_calls[i].name = ag_ret.log.executed[k]

C35_Witness ==
    /\ ag_ret.pc = "returned"
    /\ ag_ret.log.executed = <<"get_latest_news">>
    /\ Cardinality(EligibleCalls) = 1
    /\ ag_name = "bibi"

\* a turn whose only requested call cannot be decoded runs nothing
C35_WitnessUndecodable ==
    /\ ag_ret.pc = "returned"
    /\ Len(ag_ret.log.calls) = 2
    /\ EligibleCalls = {}
    /\ ag_env.response1.choices[1].tool_calls[1].arguments = "{bad"
    /\ ag_ret.log.executed = <<>>

-----------------------------------------------------------------------------
(* C36 *)

\* the result of the latest runner invocation has just been appended
JustAppended ==
    /\ phase = "Running"
    /\ Len(runs) >= 1
    /\ Len(plan_ctx.agent_output) = Len(runs)
    /\ step_idx = Len(runs)

\* C36: right after the result of a step whose runner took the normal path
\* has been appended, AgentContexts.is_final_step() returns the is_final flag
\* the runner computed before the append
C36_FinalityAgrees ==
    (JustAppended /\ NormalPath(Len(runs))) =>
        /\ ~is_final_step(plan_ctx).fault
        /\ is_final_step(plan_ctx).value = plan_ctx.agent_output[Len(runs)].final_output
        /\ IsFinal(runs[Len(runs)].seen).value = is_final_step(plan_ctx).value

\* the first of two steps is not final, before the append and after it
C36_Witness ==
    /\ JustAppended
    /\ Len(runs) = 1
    /\ NormalPath(1)
    /\ plan.total_steps = IntVal(2)
    /\ ~plan_ctx.agent_output[1].final_output
    /\ ~is_final_step(plan_ctx).value

\* the last step of a plan is final, before the append and after it
C36_WitnessFinal ==
    /\ JustAppended
    /\ Len(runs) = 2
    /\ NormalPath(2)
    /\ plan.total_steps = IntVal(2)
    /\ plan_ctx.agent_output[2].final_output
    /\ is_final_step(plan_ctx).value

-----------------------------------------------------------------------------
(* Web UI: the step loop of process_user_message, streamlit_app.py:315-351 *)

\* lines 316-321 and the enumerate of line 324
UiLoopStart(a_plan) ==
    [pc |-> IF a_plan.plans.iterable THEN "Running" ELSE "Raised",
     ctx |-> AgentContexts(<<>>, a_plan.total_steps, 0, <<>>),
     step_idx |-> 0,
     runs |-> <<>>]

\* lines 333-334: progress = (step_idx + 1) / plan.total_steps raises for a
\* total_steps of 0 (ZeroDivisionError) and for one that is not a number
\* (TypeError); progress_container.progress(progress, ...) refuses a ratio
\* above 1.0 (StreamlitAPIException), that is a step beyond total_steps
ProgressFault(a_plan, i) ==
    \/ ~a_plan.total_steps.isint
    \/ a_plan.total_steps.n = 0
    \/ i + 1 > a_plan.total_steps.n

\* one iteration of the loop, lines 324-351, with a runner whose
\* collaborators do what env says; w is the position and the local agent_ctx
UiLoopStep(w, a_plan, u, env) ==
    LET step_plan == StepAt(a_plan, w.step_idx)
        runner == IF step_plan.agent_name \in AGENT_EXECUTORS
                  THEN step_plan.agent_name ELSE "bibi"
        ret == execute_agent(runner, u, w.ctx, env)
    IN
    IF step_plan.shape # "ok" \/ ProgressFault(a_plan, w.step_idx)
    THEN [w EXCEPT !.pc = "Raised"]
    ELSE IF ret.pc = "raised"
    THEN [w EXCEPT !.pc = "Raised", !.runs = Append(@, runner)]
    ELSE [w EXCEPT !.ctx = add_agent_result(@, step_plan.agent_name, ret.result),
                   !.step_idx = @ + 1,
                   !.runs = Append(@, runner)]

-----------------------------------------------------------------------------
(* Specification of the two step loops side by side: execute_plan and the  *)
(* loop of process_user_message walk the same plan, and at every step both *)
(* runners are given the same collaborators                                *)

LpInit ==
    /\ GwIdle
    /\ PlannerIdle
    /\ rs_in = <<>>
    /\ rs_ret = <<>>
    /\ heap = <<>>
    /\ sess = <<>>
    /\ clock = 0
    /\ probe = <<>>
    /\ prompts = <<>>
    /\ user_ctx \in SampleUsers
    /\ agent_ctx = SessionAgentCtx
    /\ ag_name = "bibi"
    /\ ag_env = <<>>
    /\ ag_ret = <<>>
    /\ phase = "Planned"
    /\ \E env \in RequestPlannerEnvs :
          /\ execute_manager(user_ctx, agent_ctx, env).pc = "returned"
          /\ plan = execute_manager(user_ctx, agent_ctx, env).plan
    /\ plan_ctx = FreshContext(ErrorPlan)
    /\ step_idx = 0
    /\ runs = <<>>
    \* the listing of lines 310-311 raises on a plans that is not a list and on
    \* a step that lacks a key or is not a dict; it passes a step whose
    \* agent_name is merely unhashable
    /\ \E listing_raises \in BOOLEAN :
          /\ listing_raises =>
                \/ ~plan.plans.iterable
                \/ \E i \in 1..Len(plan.plans.steps) : plan.plans.steps[i].shape # "ok"
          /\ ~plan.plans.iterable => listing_raises
          /\ ui = IF listing_raises THEN [UiIdle EXCEPT !.pc = "Raised"]
                  ELSE UiLoopStart(plan)
    /\ ui_input = <<>>

\* the same step in both loops
LpBothStep ==
    /\ phase = "Running"
    /\ ui.pc = "Running"
    /\ step_idx = ui.step_idx
    /\ step_idx < Len(plan.plans.steps)
    /\ \E env \in StepTurnEnvs :
          /\ PlanStepWith(env)
          /\ ui' = UiLoopStep(ui, plan, user_ctx, env)
    /\ UNCHANGED <<ui_input, rsVars, ssVars, gwVars, ctxVars, agVars, plVars, plan>>

\* execute_plan goes on after the other loop was left by an exception
LpPlanStepAlone ==
    /\ ui.pc = "Raised"
    /\ PlanStepRun

LpNext == PlanStart \/ LpBothStep \/ LpPlanStepAlone \/ PlanReturn

SpecLoops == LpInit /\ [][LpNext]_vars

-----------------------------------------------------------------------------
(* C37 *)

RunnersOf(rs) == [k \in 1..Len(rs) |-> rs[k].runner]

\* both loops hold the same AgentContext and have invoked the same runners
LoopsAgree ==
    /\ ui.ctx = plan_ctx
    /\ ui.runs = RunnersOf(runs)

\* C37: the step loop of process_user_message and execute_plan are
\* equivalent: on the same plan and with the same runner results, after
\* every step both hold an AgentContext with the same total_step,
\* current_step, agent_id_history and agent_output, and both have invoked
\* the same runners (bibi for an unrecognized identity)
C37_LoopsEquivalent ==
    phase # "Planned" => LoopsAgree

\* a plan whose steps all carry agent_name and description and whose
\* total_steps is a number not below the number of steps
ConsistentPlan ==
    /\ plan.plans.iterable
    /\ \A i \in 1..Len(plan.plans.steps) : plan.plans.steps[i].shape = "ok"
    /\ plan.total_steps.isint
    /\ plan.total_steps.n >= Len(plan.plans.steps)

\* the part that holds: the loops agree on every such plan
C37_EquivalentOnConsistentPlans ==
    (phase # "Planned" /\ ConsistentPlan) => LoopsAgree

C37_WitnessAgree ==
    /\ phase = "Completed"
    /\ Len(runs) = 2
    /\ runs[1].runner = "bibi"
    /\ StepAt(plan, 0).agent_name = "other"
    /\ ui.step_idx = 2
    /\ LoopsAgree

-----------------------------------------------------------------------------
(* Specification of one user request in the Web UI: process_user_message,  *)
(* streamlit_app.py:281-382, from the submitted text to the rerun          *)

\* user_input.strip() is empty
IsBlank(input) == \A i \in 1..Len(input) : input[i] \in {" ", "\n"}

UiInputs == {<<>>, <<" ">>, <<"what", "now">>}

\* an except clause that reports the error on the page only
UiExcept_PageOnly(u, now) == u

\* lines 371-376: the except clause of the handler
UiExcept(u, now) ==
    add_assistant_message(u, <<"sorry, an error occurred while processing; try again">>,
                          <<"error">>, now)

UiInit ==
    /\ ui = UiIdle
    /\ ui_input = <<>>
    /\ rs_in = <<>>
    /\ rs_ret = <<>>
    /\ heap = <<>>
    /\ sess = <<>>
    /\ clock = 2
    /\ probe = <<>>
    /\ prompts = <<>>
    /\ GwIdle
    /\ PlannerIdle
    /\ ExecutorIdle
    /\ user_ctx \in SampleUsers
    /\ agent_ctx = SessionAgentCtx
    /\ ag_name = "bibi"
    /\ ag_env = <<>>
    /\ ag_ret = <<>>

\* lines 283-295: the two early returns and add_user_message
UiSubmit ==
    /\ ui.pc = "Idle"
    /\ \E input \in UiInputs, has_key \in BOOLEAN :
          /\ ui_input' = input
          /\ IF IsBlank(input)
             THEN /\ ui' = [ui EXCEPT !.pc = "ReturnedBlank"]
                  /\ UNCHANGED <<user_ctx, clock>>
             ELSE IF ~has_key
             THEN /\ ui' = [ui EXCEPT !.pc = "ReturnedNoKey"]
                  /\ UNCHANGED <<user_ctx, clock>>
             ELSE /\ ui' = [ui EXCEPT !.pc = "Planning"]
                  /\ user_ctx' = add_user_message(user_ctx, input, clock)
                  /\ clock' = clock + 1
    /\ UNCHANGED <<agent_ctx, rsVars, heap, sess, probe, prompts, gwVars, agVars, plVars,
                   exVars>>

\* lines 301-321: execute_manager, the listing of the steps, the local
\* agent_ctx.  The listing reads step['agent_name'] and step['description']:
\* it raises on a step that lacks a key or is not a dict, and passes a step
\* whose agent_name is merely unhashable
UiPlan ==
    /\ ui.pc = "Planning"
    /\ \E env \in RequestPlannerEnvs, listing_raises \in BOOLEAN :
          LET ret == execute_manager(user_ctx, agent_ctx, env)
              ill == \E i \in 1..Len(ret.plan.plans.steps) :
                         ret.plan.plans.steps[i].shape # "ok"
              started == UiLoopStart(ret.plan)
          IN
          /\ listing_raises => ill
          /\ plan' = ret.plan
          /\ IF ret.pc = "raised" \/ listing_raises \/ started.pc = "Raised"
             THEN /\ ui' = [ui EXCEPT !.pc = "Excepted"]
                  /\ user_ctx' = UiExcept(user_ctx, clock)
                  /\ clock' = clock + 1
             ELSE /\ ui' = started
                  /\ UNCHANGED <<user_ctx, clock>>
    /\ UNCHANGED <<ui_input, agent_ctx, rsVars, heap, sess, probe, prompts, gwVars, agVars,
                   plVars, phase, plan_ctx, step_idx, runs>>

\* one iteration of the step loop, lines 324-351
UiStep ==
    /\ ui.pc = "Running"
    /\ ui.step_idx < Len(plan.plans.steps)
    /\ \E env \in StepTurnEnvs :
          LET w == UiLoopStep(ui, plan, user_ctx, env) IN
          IF w.pc = "Raised"
          THEN /\ ui' = [w EXCEPT !.pc = "Excepted"]
               /\ user_ctx' = UiExcept(user_ctx, clock)
               /\ clock' = clock + 1
          ELSE /\ ui' = w
               /\ UNCHANGED <<user_ctx, clock>>
    /\ UNCHANGED <<ui_input, agent_ctx, rsVars, heap, sess, probe, prompts, gwVars, agVars,
                   plVars, exVars>>

\* lines 353-365: the final result, or the apology for a plan without results
UiFinish ==
    /\ ui.pc = "Running"
    /\ ui.step_idx = Len(plan.plans.steps)
    /\ user_ctx' =
          IF ui.ctx.agent_output # <<>>
          THEN add_assistant_message(user_ctx,
                   ui.ctx.agent_output[Len(ui.ctx.agent_output)].output,
                   <<"all steps done">> \o FieldToks(plan.total_steps), clock)
          ELSE add_assistant_message(user_ctx,
                   <<"sorry, a problem occurred while processing the request">>,
                   <<"failed">>, clock)
    /\ clock' = clock + 1
    /\ ui' = [ui EXCEPT !.pc = "Done"]
    /\ UNCHANGED <<ui_input, agent_ctx, rsVars, heap, sess, probe, prompts, gwVars, agVars,
                   plVars, exVars>>

UiNext == UiSubmit \/ UiPlan \/ UiStep \/ UiFinish

SpecUi == UiInit /\ [][UiNext]_vars

-----------------------------------------------------------------------------
(* C38 *)

\* the turns appended since the request was submitted
NewTurns ==
    LET IsNew(m) == m.timestamp >= 2 IN SelectSeq(user_ctx.chat_history, IsNew)

HistoryKept ==
    \E h \in SampleChats :
        /\ IsPrefix(h, user_ctx.chat_history)
        /\ Len(user_ctx.chat_history) = Len(h) + Len(NewTurns)

\* C38: a non-blank request (API key present) adds to the session's chat
\* history one user turn with the submitted text and then, by the time the
\* handler ends, exactly one assistant turn: the output of the last recorded
\* AgentOutput when the loop ended with at least one, a fixed apology when
\* it ended with none or a fault was raised; a blank request adds nothing
C38_OneUserOneAssistantTurn ==
    /\ HistoryKept
    /\ ui.pc \in {"Idle", "ReturnedBlank", "ReturnedNoKey"} => NewTurns = <<>>
    /\ ui.pc = "ReturnedBlank" <=> (ui.pc # "Idle" /\ IsBlank(ui_input))
    /\ ui.pc \in {"Planning", "Running"} =>
          /\ Len(NewTurns) = 1
          /\ NewTurns[1].role = "user"
          /\ NewTurns[1].content = ui_input
    /\ ui.pc \in {"Done", "Excepted"} =>
          /\ Len(NewTurns) = 2
          /\ NewTurns[1].role = "user"
          /\ NewTurns[1].content = ui_input
          /\ NewTurns[2].role = "assistant"
    /\ ui.pc = "Done" =>
          NewTurns[2].content =
              IF Len(ui.ctx.agent_output) >= 1
              THEN ui.ctx.agent_output[Len(ui.ctx.agent_output)].output
              ELSE <<"sorry, a problem occurred while processing the request">>
    /\ ui.pc = "Excepted" =>
          NewTurns[2].content = <<"sorry, an error occurred while processing; try again">>

\* a fault in the second step of a plan: the apology after one recorded output
C38_Witness ==
    /\ ui.pc = "Excepted"
    /\ Len(ui.ctx.agent_output) = 1
    /\ Len(NewTurns) = 2
    /\ NewTurns[2].role = "assistant"

\* a plan of two steps that ran to its end
C38_WitnessDone ==
    /\ ui.pc = "Done"
    /\ Len(ui.ctx.agent_output) = 2
    /\ NewTurns[2].content = ui.ctx.agent_output[2].output

\* a plan without steps: the apology for no result
C38_WitnessNoResult ==
    /\ ui.pc = "Done"
    /\ ui.ctx.agent_output = <<>>
    /\ Len(NewTurns) = 2

-----------------------------------------------------------------------------
(* Specification of a plan built by hand: AgentPlan() and add_plan_step,   *)
(* model_class.py:183-213                                                  *)

\* most add_plan_step calls on one plan
MaxBuildLen == 2

\* AgentPlan.add_plan_step; tool_recommendation None becomes a new empty list
add_plan_step(a_plan, agent_name, description, tool_recommendation) ==
    LET plan_step == [shape |-> "ok", agent_name |-> agent_name,
                      description |-> description,
                      tool_recommendation |->
                          IF tool_recommendation = NoneVal THEN <<>>
                          ELSE tool_recommendation]
        appended == Append(a_plan.plans.steps, plan_step)
    IN  [a_plan EXCEPT !.plans = PlansList(appended),
                       !.total_steps = IntVal(Len(appended))]

\* plan = AgentPlan(): total_steps = 1, plans = [], mode = 'chat'
PbInit ==
    /\ AuxIdle
    /\ GwIdle
    /\ AgentIdle
    /\ PlannerIdle
    /\ phase = "Idle"
    /\ plan = AgentPlan(IntVal(1), PlansList(<<>>), "chat")
    /\ plan_ctx = FreshContext(ErrorPlan)
    /\ step_idx = 0
    /\ runs = <<>>

\* plan.add_plan_step(agent_name, description, tool_recommendation)
PbAdd ==
    /\ Len(plan.plans.steps) < MaxBuildLen
    /\ \E agent_name \in AGENT_EXECUTORS \cup {"other"},
          tool_recommendation \in {NoneVal, <<"get_latest_news">>} :
          plan' = add_plan_step(plan, agent_name, <<"d">>, tool_recommendation)
    /\ UNCHANGED <<auxVars, gwVars, ctxVars, agVars, plVars, phase, plan_ctx, step_idx, runs>>

PbNext == PbAdd

SpecPlanBuilder == PbInit /\ [][PbNext]_vars

-----------------------------------------------------------------------------
(* C39 *)

\* C39: for a plan built by AgentPlan() and add_plan_step calls, total_steps
\* equals the number of steps in every state, and each add_plan_step appends
\* one step at the end and leaves the earlier steps as they were
C39_TotalStepsIsLength == plan.total_steps = IntVal(Len(plan.plans.steps))

\* the part that holds: every add_plan_step appends one step at the end,
\* keeps the earlier steps and leaves total_steps equal to the new length
C39_AddKeepsCount ==
    [][/\ Len(plan'.plans.steps) = Len(plan.plans.steps) + 1
       /\ IsPrefix(plan.plans.steps, plan'.plans.steps)
       /\ plan'.total_steps = IntVal(Len(plan'.plans.steps))
       /\ plan'.mode = plan.mode]_vars

C39_WitnessAdded ==
    /\ Len(plan.plans.steps) = 2
    /\ plan.total_steps = IntVal(2)
    /\ plan.plans.steps[1].agent_name = "kiki"
    /\ plan.plans.steps[2].tool_recommendation = <<>>

====
